---- MODULE Spec2Model ----
(***************************************************************************)
(* Signature resolution pipeline of gxdocgen (package internal/xpz).       *)
(*                                                                         *)
(* Strings are sequences of one-character strings, so that the regular     *)
(* expressions, the splits and the trims of the Go code are computed       *)
(* character by character.  A Go slice that may be nil is a pair: the      *)
(* sequence of its elements and a flag telling nil from empty.             *)
(***************************************************************************)
EXTENDS Integers, Sequences, FiniteSets, TLC

(***************************************************************************)
(* Bounds of the explored inputs.                                          *)
(***************************************************************************)
MaxSegs == 2
MaxVars == 2
MaxProps == 2
MaxTypeLen == 4
MaxParams == 2
MaxLines == 2

(***************************************************************************)
(* Characters.                                                             *)
(***************************************************************************)
UpperAlpha ==
  <<"A","B","C","D","E","F","G","H","I","J","K","L","M",
    "N","O","P","Q","R","S","T","U","V","W","X","Y","Z">>
LowerAlpha ==
  <<"a","b","c","d","e","f","g","h","i","j","k","l","m",
    "n","o","p","q","r","s","t","u","v","w","x","y","z">>
UpperSet == {UpperAlpha[i] : i \in DOMAIN UpperAlpha}
LowerSet == {LowerAlpha[i] : i \in DOMAIN LowerAlpha}
DigitSet == {"0","1","2","3","4","5","6","7","8","9"}
LowerMap == [c \in UpperSet |-> LowerAlpha[CHOOSE i \in DOMAIN UpperAlpha : UpperAlpha[i] = c]]
UpperMap == [c \in LowerSet |-> UpperAlpha[CHOOSE i \in DOMAIN LowerAlpha : LowerAlpha[i] = c]]

\* unicode.ToLower / unicode.ToUpper on one character
ToLowerChar(c) == IF c \in UpperSet THEN LowerMap[c] ELSE c
ToUpperChar(c) == IF c \in LowerSet THEN UpperMap[c] ELSE c
\* strings.ToLower / strings.ToUpper
ToLower(s) == [i \in DOMAIN s |-> ToLowerChar(s[i])]
ToUpper(s) == [i \in DOMAIN s |-> ToUpperChar(s[i])]

\* \s of the regular expressions and the white space of strings.TrimSpace
IsSpace(c) == c \in {" ", "\n", "\t", "\r"}
\* \w, the word characters that decide \b
IsWordChar(c) == c \in UpperSet \cup LowerSet \cup DigitSet \cup {"_"}

(***************************************************************************)
(* String helpers of the Go standard library.                              *)
(***************************************************************************)
Sub(s, i, j) == IF j < i THEN <<>> ELSE SubSeq(s, i, j)

\* strings.HasPrefix
HasPrefix(s, p) == Len(p) <= Len(s) /\ Sub(s, 1, Len(p)) = p
\* strings.HasPrefix after case folding, the (?i) flag on a literal
HasPrefixFoldAt(s, i, p) ==
  /\ i + Len(p) - 1 <= Len(s)
  /\ \A k \in 1..Len(p) : ToLowerChar(s[i + k - 1]) = p[k]

\* strings.TrimSpace
TrimSpace(s) ==
  LET keep == {i \in DOMAIN s : ~IsSpace(s[i])}
  IN  IF keep = {} THEN <<>>
      ELSE LET lo == CHOOSE i \in keep : \A j \in keep : i <= j
               hi == CHOOSE i \in keep : \A j \in keep : j <= i
           IN  SubSeq(s, lo, hi)

\* strings.Index of a single character, 0 when absent (Go: -1)
IndexOf(s, c) ==
  IF \E i \in DOMAIN s : s[i] = c
  THEN CHOOSE i \in DOMAIN s : s[i] = c /\ \A j \in 1..(i - 1) : s[j] # c
  ELSE 0

\* strings.Contains of a single character
Contains(s, c) == IndexOf(s, c) # 0

\* strings.Split(s, sep) for a separator of one character
RECURSIVE Split(_, _)
Split(s, c) ==
  LET i == IndexOf(s, c)
  IN  IF i = 0 THEN <<s>>
      ELSE <<Sub(s, 1, i - 1)>> \o Split(Sub(s, i + 1, Len(s)), c)

\* strings.Join
RECURSIVE Join(_, _)
Join(parts, sep) ==
  IF Len(parts) = 0 THEN <<>>
  ELSE IF Len(parts) = 1 THEN parts[1]
  ELSE parts[1] \o sep \o Join(Tail(parts), sep)

\* the position after the run of white space that starts at i (\s*)
RECURSIVE SkipSpace(_, _)
SkipSpace(s, i) ==
  IF i <= Len(s) /\ IsSpace(s[i]) THEN SkipSpace(s, i + 1) ELSE i

(***************************************************************************)
(* The pre-compiled regular expressions.  Go's regexp package returns the  *)
(* leftmost match and, among the matches that start there, the one a       *)
(* backtracking engine finds first: alternatives are tried in the order    *)
(* written; `.` does not match a line feed.  Each expression is given by   *)
(* the end of its match at a start position, 0 meaning no match there.     *)
(***************************************************************************)
StrParm  == <<"p","a","r","m">>
StrIn    == <<"i","n">>
StrOut   == <<"o","u","t">>
StrInout == <<"i","n","o","u","t">>
\* the alternation (in|out|inout), in the order the engine tries it
DirAlternatives == <<StrIn, StrOut, StrInout>>

\* parmRegex = (?i)parm\s*\((.*?)\) : position of the opening parenthesis
ParmOpenAt(s, i) ==
  IF HasPrefixFoldAt(s, i, StrParm)
  THEN LET j == SkipSpace(s, i + 4)
       IN  IF j <= Len(s) /\ s[j] = "(" THEN j ELSE 0
  ELSE 0

\* parmRegex: end of the match that starts at i (the closing parenthesis)
ParmMatchEnd(s, i) ==
  LET j == ParmOpenAt(s, i)
  IN  IF j = 0 THEN 0
      ELSE LET closers == {k \in (j + 1)..Len(s) : s[k] = ")"}
           IN  IF closers = {} THEN 0
               ELSE LET k == CHOOSE x \in closers : \A y \in closers : x <= y
                    IN  IF \E n \in (j + 1)..(k - 1) : s[n] = "\n" THEN 0 ELSE k

\* parmRegex: start of the leftmost match at or after position from, or 0
ParmFindFrom(s, from) ==
  LET starts == {i \in from..Len(s) : ParmMatchEnd(s, i) # 0}
  IN  IF starts = {} THEN 0
      ELSE CHOOSE i \in starts : \A j \in starts : i <= j

\* parmRegex.FindStringSubmatch(source)[1], the captured argument list
ParmCaptured(s) ==
  LET st == ParmFindFrom(s, 1)
  IN  Sub(s, ParmOpenAt(s, st) + 1, ParmMatchEnd(s, st) - 1)

\* parmRegex.ReplaceAllString(s, repl) from position from on; repl holds no `$`
RECURSIVE ParmReplaceAll(_, _, _)
ParmReplaceAll(s, from, repl) ==
  LET st == ParmFindFrom(s, from)
  IN  IF st = 0 THEN Sub(s, from, Len(s))
      ELSE Sub(s, from, st - 1) \o repl
             \o ParmReplaceAll(s, ParmMatchEnd(s, st) + 1, repl)

\* end of alternative a followed by \s*: when it matches at i, or 0
DirAltEnd(s, i, a) ==
  IF HasPrefixFoldAt(s, i, a)
  THEN LET j == SkipSpace(s, i + Len(a))
       IN  IF j <= Len(s) /\ s[j] = ":" THEN j ELSE 0
  ELSE 0

\* \b before a word character at i
WordStartAt(s, i) ==
  /\ i <= Len(s) /\ IsWordChar(s[i])
  /\ (i = 1 \/ ~IsWordChar(s[i - 1]))

\* directionRegex = (?i)\b(in|out|inout)\s*: : end of the match starting at i
DirectionMatchEnd(s, i) ==
  IF ~WordStartAt(s, i) THEN 0
  ELSE LET ok == {n \in DOMAIN DirAlternatives : DirAltEnd(s, i, DirAlternatives[n]) # 0}
       IN  IF ok = {} THEN 0
           ELSE DirAltEnd(s, i, DirAlternatives[CHOOSE n \in ok : \A m \in ok : n <= m])

DirectionFindFrom(s, from) ==
  LET starts == {i \in from..Len(s) : DirectionMatchEnd(s, i) # 0}
  IN  IF starts = {} THEN 0
      ELSE CHOOSE i \in starts : \A j \in starts : i <= j

\* directionMatch = (?i)\b(in|out|inout), FindString on a match of
\* directionRegex: the first alternative that matches at its first character
DirectionMatchFind(m) ==
  LET ok == {n \in DOMAIN DirAlternatives : HasPrefixFoldAt(m, 1, DirAlternatives[n])}
  IN  IF ok = {} THEN <<>>
      ELSE Sub(m, 1, Len(DirAlternatives[CHOOSE n \in ok : \A k \in ok : n <= k]))

\* the function handed to directionRegex.ReplaceAllStringFunc
LowerDirection(m) == ToLower(DirectionMatchFind(m)) \o <<":">>

RECURSIVE DirectionReplaceAll(_, _)
DirectionReplaceAll(s, from) ==
  LET st == DirectionFindFrom(s, from)
  IN  IF st = 0 THEN Sub(s, from, Len(s))
      ELSE LET e == DirectionMatchEnd(s, st)
           IN  Sub(s, from, st - 1) \o LowerDirection(Sub(s, st, e))
                 \o DirectionReplaceAll(s, e + 1)

\* colonSpaceRegex = :\s+& : end of the match starting at i
ColonSpaceMatchEnd(s, i) ==
  IF i + 1 <= Len(s) /\ s[i] = ":" /\ IsSpace(s[i + 1])
  THEN LET j == SkipSpace(s, i + 1)
       IN  IF j <= Len(s) /\ s[j] = "&" THEN j ELSE 0
  ELSE 0

RECURSIVE ColonSpaceReplaceAll(_, _)
ColonSpaceReplaceAll(s, from) ==
  LET starts == {i \in from..Len(s) : ColonSpaceMatchEnd(s, i) # 0}
  IN  IF starts = {} THEN Sub(s, from, Len(s))
      ELSE LET st == CHOOSE i \in starts : \A j \in starts : i <= j
           IN  Sub(s, from, st - 1) \o <<":", "&">>
                 \o ColonSpaceReplaceAll(s, ColonSpaceMatchEnd(s, st) + 1)

\* commaSpaceRegex = ,\s* replaced by ", "
RECURSIVE CommaSpaceReplaceAll(_, _)
CommaSpaceReplaceAll(s, from) ==
  LET starts == {i \in from..Len(s) : s[i] = ","}
  IN  IF starts = {} THEN Sub(s, from, Len(s))
      ELSE LET st == CHOOSE i \in starts : \A j \in starts : i <= j
           IN  Sub(s, from, st - 1) \o <<",", " ">>
                 \o CommaSpaceReplaceAll(s, SkipSpace(s, st + 1))

\* paramRegex = (?i)^(in|out|inout)\s*:\s*&(.+)$ on a trimmed segment:
\* position of `&` for alternative a, or 0
ParamAmpAt(part, a) ==
  LET c == DirAltEnd(part, 1, a)
  IN  IF c = 0 THEN 0
      ELSE LET j == SkipSpace(part, c + 1)
           IN  IF /\ j < Len(part)
                  /\ part[j] = "&"
                  /\ \A n \in (j + 1)..Len(part) : part[n] # "\n"
               THEN j ELSE 0

\* the alternatives of paramRegex that match the whole segment
ParamAlts(part) == {n \in DOMAIN DirAlternatives : ParamAmpAt(part, DirAlternatives[n]) # 0}
\* paramRegex.FindStringSubmatch(part) has its three entries
ParamMatches(part) == ParamAlts(part) # {}
ParamAlt(part) == DirAlternatives[CHOOSE n \in ParamAlts(part) : \A m \in ParamAlts(part) : n <= m]
\* matches[1] and matches[2]
ParamDirection(part) == Sub(part, 1, Len(ParamAlt(part)))
ParamName(part) == Sub(part, ParamAmpAt(part, ParamAlt(part)) + 1, Len(part))

(***************************************************************************)
(* model.ParameterDoc and Signature.                                       *)
(***************************************************************************)
ParameterDoc(name, direction, type, description) ==
  [Name |-> name, Direction |-> direction, Type |-> type, Description |-> description]

\* Signature{}: the zero value, Parameters nil
ZeroSignature ==
  [Parameters |-> <<>>, IsNil |-> TRUE, RawSignature |-> <<>>, ExtractionMode |-> ""]

MakeSignature(params, isNil, raw) ==
  [Parameters |-> params, IsNil |-> isNil, RawSignature |-> raw, ExtractionMode |-> ""]

StrIN == <<"I","N">>
StrCallEmpty == <<"(", ")", ";">>

(***************************************************************************)
(* parseParmString                                                         *)
(***************************************************************************)
\* mutant of FilterLines: the prefix is tested on the line as it stands
RECURSIVE FilterLines_Untrimmed(_)
FilterLines_Untrimmed(lines) ==
  IF Len(lines) = 0 THEN <<>>
  ELSE IF HasPrefix(Head(lines), <<"/", "/">>)
       THEN FilterLines_Untrimmed(Tail(lines))
       ELSE <<Head(lines)>> \o FilterLines_Untrimmed(Tail(lines))

\* the lines whose trimmed text does not start with //, joined again
RECURSIVE FilterLines(_)
FilterLines(lines) ==
  IF Len(lines) = 0 THEN <<>>
  ELSE IF HasPrefix(TrimSpace(Head(lines)), <<"/", "/">>)
       THEN FilterLines(Tail(lines))
       ELSE <<Head(lines)>> \o FilterLines(Tail(lines))

ActiveSource(source) == Join(FilterLines(Split(source, "\n")), <<"\n">>)

\* mutant of ParseParts: the direction is kept as written
RECURSIVE ParseParts_DirectionAsWritten(_)
ParseParts_DirectionAsWritten(parts) ==
  IF Len(parts) = 0 THEN <<>>
  ELSE LET part == TrimSpace(Head(parts))
       IN  IF part # <<>> /\ ParamMatches(part)
           THEN <<ParameterDoc(TrimSpace(ParamName(part)), ParamDirection(part),
                               <<>>, <<>>)>>
                  \o ParseParts_DirectionAsWritten(Tail(parts))
           ELSE ParseParts_DirectionAsWritten(Tail(parts))

\* mutant of ParseParts: a name declared twice gives one parameter
RECURSIVE ParseParts_MergeNames(_)
ParseParts_MergeNames(parts) ==
  IF Len(parts) = 0 THEN <<>>
  ELSE LET part == TrimSpace(Head(parts))
           rest == ParseParts_MergeNames(Tail(parts))
       IN  IF part # <<>> /\ ParamMatches(part)
           THEN <<ParameterDoc(TrimSpace(ParamName(part)), ToUpper(ParamDirection(part)),
                               <<>>, <<>>)>>
                  \o SelectSeq(rest, LAMBDA q : q.Name # TrimSpace(ParamName(part)))
           ELSE rest

\* the loop over the comma-separated parts: one ParameterDoc per match
RECURSIVE ParseParts(_)
ParseParts(parts) ==
  IF Len(parts) = 0 THEN <<>>
  ELSE LET part == TrimSpace(Head(parts))
       IN  IF part # <<>> /\ ParamMatches(part)
           THEN <<ParameterDoc(TrimSpace(ParamName(part)), ToUpper(ParamDirection(part)),
                               <<>>, <<>>)>> \o ParseParts(Tail(parts))
           ELSE ParseParts(Tail(parts))

\* the four rewrites that build RawSignature from the whole active source
NormalizeRaw(source, procedureName, paramsStr) ==
  TrimSpace(
    CommaSpaceReplaceAll(
      ColonSpaceReplaceAll(
        DirectionReplaceAll(
          ParmReplaceAll(source, 1, procedureName \o <<"(">> \o paramsStr \o <<")">>),
          1),
        1),
      1))

\* mutant of parseParmString: a blank argument list fails the strategy
parseParmString_BlankFails(source, procedureName) ==
  LET active == ActiveSource(source)
  IN  IF ParmFindFrom(active, 1) = 0 THEN ZeroSignature
      ELSE LET paramsStr == ParmCaptured(active)
           IN  IF TrimSpace(paramsStr) = <<>>
               THEN ZeroSignature
               ELSE LET params == ParseParts(Split(paramsStr, ","))
                    IN  MakeSignature(params, params = <<>>,
                                      NormalizeRaw(active, procedureName, paramsStr))

\* mutant of parseParmString: the parameter list starts empty, not nil
parseParmString_EmptyNotNil(source, procedureName) ==
  LET active == ActiveSource(source)
  IN  IF ParmFindFrom(active, 1) = 0 THEN ZeroSignature
      ELSE LET paramsStr == ParmCaptured(active)
           IN  IF TrimSpace(paramsStr) = <<>>
               THEN MakeSignature(<<>>, FALSE, procedureName \o StrCallEmpty)
               ELSE MakeSignature(ParseParts(Split(paramsStr, ",")), FALSE,
                                  NormalizeRaw(active, procedureName, paramsStr))

parseParmString(source, procedureName) ==
  LET active == ActiveSource(source)
  IN  IF ParmFindFrom(active, 1) = 0 THEN ZeroSignature
      ELSE LET paramsStr == ParmCaptured(active)
           IN  IF TrimSpace(paramsStr) = <<>>
               THEN MakeSignature(<<>>, FALSE, procedureName \o StrCallEmpty)
               ELSE LET params == ParseParts(Split(paramsStr, ","))
                    IN  MakeSignature(params, params = <<>>,
                                      NormalizeRaw(active, procedureName, paramsStr))

(***************************************************************************)
(* cleanType and buildRawSignature                                         *)
(***************************************************************************)
StrAttributePrefix == <<"A","t","t","r","i","b","u","t","e",":">>
StrSentinel == <<"-">>

\* mutant of cleanType: the package after the comma is kept
cleanType_KeepsPackage(rawType) ==
  LET t == TrimSpace(rawType)
  IN  IF Contains(t, ":") /\ ~HasPrefix(t, StrAttributePrefix)
      THEN Sub(t, IndexOf(t, ":") + 1, Len(t))
      ELSE t

cleanType(rawType) ==
  LET t == TrimSpace(rawType)
  IN  IF Contains(t, ":") /\ ~HasPrefix(t, StrAttributePrefix)
      THEN LET rest == Sub(t, IndexOf(t, ":") + 1, Len(t))
               commaIdx == IndexOf(rest, ",")
           IN  IF commaIdx # 0 THEN TrimSpace(Sub(rest, 1, commaIdx - 1)) ELSE rest
      ELSE t

RECURSIVE RawParts(_)
RawParts(params) ==
  IF Len(params) = 0 THEN <<>>
  ELSE <<ToLower(Head(params).Direction) \o <<":", "&">> \o Head(params).Name>>
         \o RawParts(Tail(params))

buildRawSignature(procedureName, params) ==
  IF Len(params) = 0 THEN procedureName \o StrCallEmpty
  ELSE procedureName \o <<"(">> \o Join(RawParts(params), <<",", " ">>) \o <<")", ";">>

(***************************************************************************)
(* The object subtree.  An object is                                       *)
(*   [hasRules, rulesText, hasVars, variables]                             *)
(* hasRules: a Part of type GXPartRules with a Source child exists, and    *)
(* rulesText is that child's inner text; hasVars: a Part of type           *)
(* GXPartVariables exists, and variables are its Variable elements in      *)
(* document order, each [attrName, props], props the Properties/Property   *)
(* children in order, each [Name, Value].  Property names are the literal  *)
(* tokens the switch statements compare with.                              *)
(***************************************************************************)
\* GetText: "" when no node matches, else the trimmed inner text
GetText(present, text) == IF present THEN TrimSpace(text) ELSE <<>>

Prop(n, v) == [Name |-> n, Value |-> v]
Variable(attr, props) == [attrName |-> attr, props |-> props]

StrTrue == <<"T","r","u","e">>
StrTrueLower == <<"t","r","u","e">>

(***************************************************************************)
(* extractFromParmRule, extractFromIsParmVariables                         *)
(***************************************************************************)
extractFromParmRule(obj, procedureName) ==
  LET source == GetText(obj.hasRules, obj.rulesText)
  IN  IF source = <<>> THEN ZeroSignature
      ELSE parseParmString(source, procedureName)

\* the locals of one iteration of the loop over the variables
ScanStart == [isParm |-> FALSE, name |-> <<>>, varType |-> <<>>, description |-> <<>>]

\* one case of the switch on propName
ScanProp(acc, prop) ==
  LET propValue == TrimSpace(prop.Value)
  IN  CASE prop.Name = "IsParm" ->
             [acc EXCEPT !.isParm = (propValue = StrTrue \/ propValue = StrTrueLower)]
        [] prop.Name = "Name" -> [acc EXCEPT !.name = propValue]
        [] prop.Name = "Description" -> [acc EXCEPT !.description = propValue]
        [] prop.Name = "ATTCUSTOMTYPE" -> [acc EXCEPT !.varType = cleanType(propValue)]
        [] prop.Name = "idBasedOn" ->
             IF acc.varType = <<>> /\ HasPrefix(propValue, StrAttributePrefix)
             THEN [acc EXCEPT !.varType = StrSentinel]
             ELSE acc
        [] OTHER -> acc

RECURSIVE ScanProps(_, _)
ScanProps(props, acc) ==
  IF Len(props) = 0 THEN acc
  ELSE ScanProps(Tail(props), ScanProp(acc, Head(props)))

\* mutant of IsParmParams: the declared name is not looked at
RECURSIVE IsParmParams_FlagOnly(_)
IsParmParams_FlagOnly(variables) ==
  IF Len(variables) = 0 THEN <<>>
  ELSE LET v == ScanProps(Head(variables).props, ScanStart)
       IN  IF v.isParm
           THEN <<ParameterDoc(v.name, StrIN, v.varType, v.description)>>
                  \o IsParmParams_FlagOnly(Tail(variables))
           ELSE IsParmParams_FlagOnly(Tail(variables))

\* the loop over the Variable elements: the parameters appended
RECURSIVE IsParmParams(_)
IsParmParams(variables) ==
  IF Len(variables) = 0 THEN <<>>
  ELSE LET v == ScanProps(Head(variables).props, ScanStart)
       IN  IF v.isParm /\ v.name # <<>>
           THEN <<ParameterDoc(v.name, StrIN, v.varType, v.description)>>
                  \o IsParmParams(Tail(variables))
           ELSE IsParmParams(Tail(variables))

extractFromIsParmVariables(obj, procedureName) ==
  IF ~obj.hasVars THEN ZeroSignature
  ELSE LET params == IsParmParams(obj.variables)
       IN  IF Len(params) = 0 THEN ZeroSignature
           ELSE MakeSignature(params, FALSE, buildRawSignature(procedureName, params))

(***************************************************************************)
(* ExtractProcedureSignature                                               *)
(***************************************************************************)
WithMode(sig, mode) == [sig EXCEPT !.ExtractionMode = mode]

\* mutant of NoneSignature: the parameter list is left nil
NoneSignature_NilParameters(procedureName) ==
  [Parameters |-> <<>>, IsNil |-> TRUE,
   RawSignature |-> procedureName \o StrCallEmpty, ExtractionMode |-> "None"]

NoneSignature(procedureName) ==
  [Parameters |-> <<>>, IsNil |-> FALSE,
   RawSignature |-> procedureName \o StrCallEmpty, ExtractionMode |-> "None"]

\* mutant of ExtractProcedureSignature: the IsParm variables are tried first
ExtractProcedureSignature_IsParmFirst(obj, procedureName) ==
  LET fromVars == extractFromIsParmVariables(obj, procedureName)
  IN  IF ~fromVars.IsNil THEN WithMode(fromVars, "IsParm")
      ELSE LET fromRule == extractFromParmRule(obj, procedureName)
           IN  IF ~fromRule.IsNil THEN WithMode(fromRule, "ParmRule")
               ELSE NoneSignature(procedureName)

ExtractProcedureSignature(obj, procedureName) ==
  LET fromRule == extractFromParmRule(obj, procedureName)
  IN  IF ~fromRule.IsNil THEN WithMode(fromRule, "ParmRule")
      ELSE LET fromVars == extractFromIsParmVariables(obj, procedureName)
           IN  IF ~fromVars.IsNil THEN WithMode(fromVars, "IsParm")
               ELSE NoneSignature(procedureName)

(***************************************************************************)
(* EnrichWithVariableMetadata                                              *)
(***************************************************************************)
MetaStart == [Type |-> <<>>, Description |-> <<>>]

\* one case of the switch on propName in the enricher's scan
MetaProp(acc, prop) ==
  LET propValue == TrimSpace(prop.Value)
  IN  CASE prop.Name = "Description" -> [acc EXCEPT !.Description = propValue]
        [] prop.Name = "ATTCUSTOMTYPE" -> [acc EXCEPT !.Type = cleanType(propValue)]
        [] prop.Name = "idBasedOn" ->
             IF acc.Type = <<>> /\ HasPrefix(propValue, StrAttributePrefix)
             THEN [acc EXCEPT !.Type = StrSentinel]
             ELSE acc
        [] OTHER -> acc

RECURSIVE MetaProps(_, _)
MetaProps(props, acc) ==
  IF Len(props) = 0 THEN acc
  ELSE MetaProps(Tail(props), MetaProp(acc, Head(props)))

\* varMap[name]: the entry of the last Variable whose Name attribute,
\* trimmed, is name; VarMapHas tells whether there is one
VarMapKeys(variables) ==
  {TrimSpace(variables[i].attrName) : i \in DOMAIN variables} \ {<<>>}

VarMapGet(variables, name) ==
  LET hits == {i \in DOMAIN variables : TrimSpace(variables[i].attrName) = name}
      last == CHOOSE i \in hits : \A j \in hits : j <= i
  IN  MetaProps(variables[last].props, MetaStart)

\* mutant of EnrichOne: the variable's fields replace the parameter's
EnrichOne_Overwrites(p, variables) ==
  IF p.Name \in VarMapKeys(variables)
  THEN LET meta == VarMapGet(variables, p.Name)
       IN  [p EXCEPT !.Type = meta.Type, !.Description = meta.Description]
  ELSE p

EnrichOne(p, variables) ==
  IF p.Name \in VarMapKeys(variables)
  THEN LET meta == VarMapGet(variables, p.Name)
       IN  [p EXCEPT !.Type = IF p.Type = <<>> THEN meta.Type ELSE p.Type,
                     !.Description = IF p.Description = <<>> THEN meta.Description
                                     ELSE p.Description]
  ELSE p

\* mutant of EnrichWithVariableMetadata: the variable's description is
\* added to the parameter's
EnrichWithVariableMetadata_AppendsDescription(params, obj) ==
  IF ~obj.hasVars THEN params
  ELSE [i \in DOMAIN params |->
          LET p == EnrichOne(params[i], obj.variables)
          IN  IF params[i].Name \in VarMapKeys(obj.variables)
              THEN [p EXCEPT !.Description =
                      params[i].Description
                        \o VarMapGet(obj.variables, params[i].Name).Description]
              ELSE p]

\* mutant of EnrichWithVariableMetadata: only the parameters found in the
\* map are returned
EnrichWithVariableMetadata_DropsUnmatched(params, obj) ==
  IF ~obj.hasVars THEN params
  ELSE LET kept == SelectSeq(params, LAMBDA p : p.Name \in VarMapKeys(obj.variables))
       IN  [i \in DOMAIN kept |-> EnrichOne(kept[i], obj.variables)]

EnrichWithVariableMetadata(params, obj) ==
  IF ~obj.hasVars THEN params
  ELSE [i \in DOMAIN params |-> EnrichOne(params[i], obj.variables)]

(***************************************************************************)
(* Package internal/parser: Parse, extractCommentBlock, parseTag and       *)
(* parseParameter.  A *model.DocComment is a record with the flag IsNil,   *)
(* a *model.ParameterDoc the same with the parameter under Param.          *)
(***************************************************************************)
\* the text p stands in s at position i
HasAt(s, i, p) ==
  /\ i + Len(p) - 1 <= Len(s)
  /\ \A k \in 1..Len(p) : s[i + k - 1] = p[k]

\* strings.Index of a text, 0 when absent (Go: -1)
IndexOfStr(s, p) ==
  LET hits == {i \in 1..Len(s) : HasAt(s, i, p)}
  IN  IF hits = {} THEN 0 ELSE CHOOSE i \in hits : \A j \in hits : i <= j

\* strings.TrimPrefix
TrimPrefix(s, p) == IF HasPrefix(s, p) THEN Sub(s, Len(p) + 1, Len(s)) ELSE s

\* strings.Fields: the maximal runs of characters that are not white space
RECURSIVE Fields(_)
Fields(s) ==
  LET i == SkipSpace(s, 1)
  IN  IF i > Len(s) THEN <<>>
      ELSE LET stops == {j \in i..Len(s) : IsSpace(s[j])}
               e == IF stops = {} THEN Len(s) + 1
                    ELSE CHOOSE j \in stops : \A k \in stops : j <= k
           IN  <<Sub(s, i, e - 1)>> \o Fields(Sub(s, e, Len(s)))

StrBlockOpen == <<"/","*","*">>
StrBlockClose == <<"*","/">>

\* the regular expression (?s)/\*\*\s*(.*?)\s*\*/ : \s*\*/ matches at e
BlockCloseAt(s, e) == HasAt(s, SkipSpace(s, e), StrBlockClose)

\* the ends (exclusive) the lazy group (.*?) can take when the match
\* starts at i: the greedy \s* after /** has taken all the white space
BlockCaptureEnds(s, i) ==
  IF HasAt(s, i, StrBlockOpen)
  THEN {e \in SkipSpace(s, i + 3)..Len(s) : BlockCloseAt(s, e)}
  ELSE {}

\* start of the leftmost match, 0 when len(matches) < 2
BlockFind(s) ==
  LET starts == {i \in 1..Len(s) : BlockCaptureEnds(s, i) # {}}
  IN  IF starts = {} THEN 0 ELSE CHOOSE i \in starts : \A j \in starts : i <= j

\* matches[1]: the lazy group stops at the first end that lets the rest match
BlockCaptured(s) ==
  LET i == BlockFind(s)
      ends == BlockCaptureEnds(s, i)
  IN  Sub(s, SkipSpace(s, i + 3), (CHOOSE e \in ends : \A f \in ends : e <= f) - 1)

\* the loop that removes the leading * of each line
CleanLines(lines) ==
  [k \in DOMAIN lines |-> TrimSpace(TrimPrefix(TrimSpace(lines[k]), <<"*">>))]

extractCommentBlock(source) ==
  IF BlockFind(source) = 0 THEN <<>>
  ELSE Join(CleanLines(Split(BlockCaptured(source), "\n")), <<"\n">>)

NilParameter == [IsNil |-> TRUE, Param |-> ParameterDoc(<<>>, <<>>, <<>>, <<>>)]

StrDashSep == <<" ","-"," ">>
ParamDirections == { <<"I","N">>, <<"O","U","T">>, <<"I","N","O","U","T">> }

\* strings.SplitN(value, " - ", 2)
SplitDash(value) ==
  LET i == IndexOfStr(value, StrDashSep)
  IN  IF i = 0 THEN <<value>>
      ELSE <<Sub(value, 1, i - 1), Sub(value, i + 3, Len(value))>>

\* mutant of parseParameter: the direction token is compared as written
parseParameter_DirectionAsWritten(value) ==
  LET parts == SplitDash(value)
      description == IF Len(parts) > 1 THEN TrimSpace(parts[2]) ELSE <<>>
      tokens == Fields(TrimSpace(parts[1]))
  IN  IF Len(tokens) < 2 THEN NilParameter
      ELSE IF tokens[2] \in ParamDirections
           THEN [IsNil |-> FALSE,
                 Param |-> ParameterDoc(tokens[1], tokens[2],
                                        IF Len(tokens) > 2 THEN tokens[3] ELSE <<>>,
                                        description)]
           ELSE [IsNil |-> FALSE,
                 Param |-> ParameterDoc(tokens[1], <<"I","N">>, tokens[2], description)]

\* mutant of parseParameter: the text is cut at every " - " and the
\* description is what follows the first cut up to the second
parseParameter_CutsDescription(value) ==
  LET parts == SplitDash(value)
      description == IF Len(parts) > 1 THEN TrimSpace(SplitDash(parts[2])[1]) ELSE <<>>
      tokens == Fields(TrimSpace(parts[1]))
      direction == IF Len(tokens) < 2 THEN <<>> ELSE ToUpper(tokens[2])
  IN  IF Len(tokens) < 2 THEN NilParameter
      ELSE IF direction \in ParamDirections
           THEN [IsNil |-> FALSE,
                 Param |-> ParameterDoc(tokens[1], direction,
                                        IF Len(tokens) > 2 THEN tokens[3] ELSE <<>>,
                                        description)]
           ELSE [IsNil |-> FALSE,
                 Param |-> ParameterDoc(tokens[1], <<"I","N">>, tokens[2], description)]

parseParameter(value) ==
  LET parts == SplitDash(value)
      description == IF Len(parts) > 1 THEN TrimSpace(parts[2]) ELSE <<>>
      tokens == Fields(TrimSpace(parts[1]))
      direction == IF Len(tokens) < 2 THEN <<>> ELSE ToUpper(tokens[2])
  IN  IF Len(tokens) < 2 THEN NilParameter
      ELSE IF direction \in ParamDirections
           THEN [IsNil |-> FALSE,
                 Param |-> ParameterDoc(tokens[1], direction,
                                        IF Len(tokens) > 2 THEN tokens[3] ELSE <<>>,
                                        description)]
           ELSE [IsNil |-> FALSE,
                 Param |-> ParameterDoc(tokens[1], <<"I","N">>, tokens[2], description)]

StrAtPackage == <<"@","p","a","c","k","a","g","e">>
StrAtSummary == <<"@","s","u","m","m","a","r","y">>
StrAtDescription == <<"@","d","e","s","c","r","i","p","t","i","o","n">>
StrAtAuthor == <<"@","a","u","t","h","o","r">>
StrAtCreated == <<"@","c","r","e","a","t","e","d">>
StrAtParam == <<"@","p","a","r","a","m">>
StrAtReturn == <<"@","r","e","t","u","r","n">>
StrAtTag == <<"@","t","a","g">>
StrAtDeprecated == <<"@","d","e","p","r","e","c","a","t","e","d">>

\* parts[0] and the trimmed parts[1] of strings.SplitN(line, " ", 2)
TagOf(line) ==
  IF IndexOf(line, " ") = 0 THEN line ELSE Sub(line, 1, IndexOf(line, " ") - 1)
ValueOf(line) ==
  IF IndexOf(line, " ") = 0 THEN <<>>
  ELSE TrimSpace(Sub(line, IndexOf(line, " ") + 1, Len(line)))

\* mutant of parseTag: a tag value already in Tags is not added again
parseTag_UniqueTags(line, doc) ==
  LET tag == TagOf(line)
      value == ValueOf(line)
  IN  CASE tag = StrAtPackage -> [doc EXCEPT !.Package = value]
        [] tag = StrAtSummary -> [doc EXCEPT !.Summary = value]
        [] tag = StrAtDescription -> [doc EXCEPT !.Description = value]
        [] tag = StrAtAuthor -> [doc EXCEPT !.Author = value]
        [] tag = StrAtCreated -> [doc EXCEPT !.Created = value]
        [] tag = StrAtParam ->
             IF parseParameter(value).IsNil THEN doc
             ELSE [doc EXCEPT !.Parameters = Append(@, parseParameter(value).Param)]
        [] tag = StrAtReturn -> [doc EXCEPT !.Return = value]
        [] tag = StrAtTag ->
             IF \E k \in DOMAIN doc.Tags : doc.Tags[k] = value THEN doc
             ELSE [doc EXCEPT !.Tags = Append(@, value)]
        [] tag = StrAtDeprecated ->
             [doc EXCEPT !.Deprecated = TRUE, !.DeprecationNote = value]
        [] OTHER -> doc

parseTag(line, doc) ==
  LET tag == TagOf(line)
      value == ValueOf(line)
  IN  CASE tag = StrAtPackage -> [doc EXCEPT !.Package = value]
        [] tag = StrAtSummary -> [doc EXCEPT !.Summary = value]
        [] tag = StrAtDescription -> [doc EXCEPT !.Description = value]
        [] tag = StrAtAuthor -> [doc EXCEPT !.Author = value]
        [] tag = StrAtCreated -> [doc EXCEPT !.Created = value]
        [] tag = StrAtParam ->
             IF parseParameter(value).IsNil THEN doc
             ELSE [doc EXCEPT !.Parameters = Append(@, parseParameter(value).Param)]
        [] tag = StrAtReturn -> [doc EXCEPT !.Return = value]
        [] tag = StrAtTag -> [doc EXCEPT !.Tags = Append(@, value)]
        [] tag = StrAtDeprecated ->
             [doc EXCEPT !.Deprecated = TRUE, !.DeprecationNote = value]
        [] OTHER -> doc

\* &model.DocComment{Parameters: make(...), Tags: make(...)}
NewDocComment ==
  [IsNil |-> FALSE, Package |-> <<>>, Summary |-> <<>>, Description |-> <<>>,
   Author |-> <<>>, Created |-> <<>>, Return |-> <<>>, Tags |-> <<>>,
   Deprecated |-> FALSE, DeprecationNote |-> <<>>, Parameters |-> <<>>,
   IsAutoGenerated |-> FALSE]

\* the nil *model.DocComment
NilDocComment == [NewDocComment EXCEPT !.IsNil = TRUE]

\* the loop of Parse over the lines of the comment block
RECURSIVE ParseLines(_, _)
ParseLines(lines, doc) ==
  IF Len(lines) = 0 THEN doc
  ELSE LET line == TrimSpace(Head(lines))
       IN  IF line # <<>> /\ HasPrefix(line, <<"@">>)
           THEN ParseLines(Tail(lines), parseTag(line, doc))
           ELSE ParseLines(Tail(lines), doc)

\* mutant of Parse: without a comment block an empty record is returned
Parse_EmptyRecord(sourceCode) ==
  LET commentBlock == extractCommentBlock(sourceCode)
  IN  IF commentBlock = <<>> THEN [doc |-> NewDocComment, err |-> "nil"]
      ELSE [doc |-> ParseLines(Split(commentBlock, "\n"), NewDocComment), err |-> "nil"]

\* Parse: the pair (doc, err) it returns
Parse(sourceCode) ==
  LET commentBlock == extractCommentBlock(sourceCode)
  IN  IF commentBlock = <<>> THEN [doc |-> NilDocComment, err |-> "nil"]
      ELSE [doc |-> ParseLines(Split(commentBlock, "\n"), NewDocComment), err |-> "nil"]

(***************************************************************************)
(* The explored inputs.                                                    *)
(***************************************************************************)
\* sequences over S of length at most n
SeqsUpTo(S, n) == UNION {[1..k -> S] : k \in 0..n}

\* comma-separated segments of an argument list
Segments ==
  { <<"i","n",":","&","a">>,
    <<" ","O","U","T",":","&","b">>,
    <<"i","n","o","u","t",":","&","a">>,
    <<"I","n"," ",":"," ","&","a"," ">>,
    <<"x">>,
    <<" ">>,
    <<"i","n",":","&">> }

ParmTokens == { <<"p","a","r","m">>, <<"P","a","r","m"," ">> }

ArgLists == {Join(segs, <<",">>) : segs \in SeqsUpTo(Segments, MaxSegs)}

Calls == {tok \o <<"(">> \o args \o <<")">> : tok \in ParmTokens, args \in ArgLists}

Prefixes == { <<>>, <<"/","/","c","\n">>, <<"x",";","\n"," ">> }
Suffixes == { <<>>, <<";">>, <<";","\n","y",";">> }

\* rules sources built around one parm call
CallSources == {pre \o call \o suf : pre \in Prefixes, call \in Calls, suf \in Suffixes}

\* a few rules sources of every kind: blank, no call, call without a
\* conforming segment, blank call, one parameter, commented out, two calls,
\* a call broken over two lines
FewSources ==
  { <<>>,
    <<" ","\n">>,
    <<"x",";">>,
    <<"p","a","r","m","(","x",")",";">>,
    <<"p","a","r","m","(",")",";">>,
    <<"p","a","r","m","(","o","u","t",":","&","b",")",";">>,
    <<"/","/"," ","P","a","r","m","(","i","n",":","&","X",")",";">>,
    <<"x",";","\n"," ","/","/","p","a","r","m","(","i","n",":","&","a",")",";">>,
    <<"/","/","p","a","r","m","(","i","n",":","&","a",")",";","\n",
      "p","a","r","m","(","o","u","t",":","&","b",")",";">>,
    <<"p","a","r","m","(","x",")",";","p","a","r","m","(","i","n",":","&","b",")",";">>,
    <<"p","a","r","m","(","i","n",":","&","a",",","\n","o","u","t",":","&","b",")",";">> }

StrBasN == <<"b","a","s",":","N">>
StrAttrX == <<"A","t","t","r","i","b","u","t","e",":","X">>

\* property values of the IsParm flag and of the declared name
FlagValues == { StrTrue, StrTrueLower, <<"F","a","l","s","e">>, <<"T","R","U","E">> }
NameValues == { <<"a">>, <<>> }

\* the properties that decide type and description
TypeProps ==
  { Prop("ATTCUSTOMTYPE", StrBasN),
    Prop("ATTCUSTOMTYPE", <<"b","a","s",":">>),
    Prop("ATTCUSTOMTYPE", <<>>),
    Prop("ATTCUSTOMTYPE", StrAttrX),
    Prop("idBasedOn", StrAttrX),
    Prop("idBasedOn", <<"D","o","m",":","Y">>),
    Prop("Description", <<"d">>) }

\* one parameter variable with every order of up to MaxProps type properties
RichVariables ==
  { Variable(<<"a">>, <<Prop("IsParm", StrTrue), Prop("Name", <<"a">>)>> \o tp) :
      tp \in SeqsUpTo(TypeProps, MaxProps) }

\* one variable with every value of the flag and of the declared name
FlagVariables ==
  { Variable(<<"a">>, <<Prop("IsParm", f), Prop("Name", n)>>) :
      f \in FlagValues, n \in NameValues }

\* variables of every kind for the objects with several variables
PoolVariables ==
  { Variable(<<"a">>, <<Prop("IsParm", StrTrue), Prop("Name", <<"a">>),
                        Prop("ATTCUSTOMTYPE", StrBasN), Prop("Description", <<"d">>)>>),
    Variable(<<"b">>, <<Prop("Name", <<"b">>), Prop("IsParm", StrTrueLower)>>),
    Variable(<<"c">>, <<Prop("IsParm", <<"F","a","l","s","e">>), Prop("Name", <<"c">>)>>),
    Variable(<<"a">>, <<Prop("IsParm", StrTrue), Prop("Description", <<"e">>)>>),
    Variable(<<>>, <<Prop("IsParm", StrTrue), Prop("IsParm", <<>>), Prop("Name", <<"b">>)>>),
    Variable(<<"b">>, <<Prop("idBasedOn", StrAttrX), Prop("Description", <<"e">>)>>) }

Object(hasRules, rulesText, hasVars, variables) ==
  [hasRules |-> hasRules, rulesText |-> rulesText, hasVars |-> hasVars, variables |-> variables]

\* the variables parts tried with every rules source
FewVarParts ==
  { <<FALSE, <<>>>>,
    <<TRUE, <<Variable(<<"a">>, <<Prop("IsParm", StrTrue), Prop("Name", <<"a">>),
                                  Prop("ATTCUSTOMTYPE", StrBasN)>>)>>>> }

RulesObjects ==
  {Object(TRUE, src, vp[1], vp[2]) : src \in CallSources, vp \in FewVarParts}

VarParts ==
  {<<FALSE, <<>>>>} \cup {<<TRUE, vs>> : vs \in SeqsUpTo(PoolVariables, MaxVars)}
                    \cup {<<TRUE, <<v>>>> : v \in RichVariables \cup FlagVariables}

VariablesObjects ==
  {Object(TRUE, src, vp[1], vp[2]) : src \in FewSources, vp \in VarParts}
    \cup {Object(FALSE, <<>>, vp[1], vp[2]) : vp \in VarParts}

Objects == RulesObjects \cup VariablesObjects

\* the objects that are also resolved under a longer name
NamedObjects ==
  {Object(TRUE, src, vp[1], vp[2]) : src \in FewSources, vp \in FewVarParts}
    \cup {Object(FALSE, <<>>, vp[1], vp[2]) : vp \in FewVarParts}

StrP == <<"P">>
StrGetUser == <<"G","e","t","U","s","e","r">>

Inputs == (Objects \X {StrP}) \cup (NamedObjects \X {StrGetUser})

(***************************************************************************)
(* The object assembler: the parts of an exported object, the parameters   *)
(* read from its Parm signature, and parseGXExportFile.                    *)
(***************************************************************************)
GXTypeProcedure == "84a12160-f59b-4ad7-a683-ea4481ac23e9"
GXPartSourceCode == "528d1c06-a9c2-420d-bd35-21dca83f12ff"
GXPartRules == "9b0a32a3-de6d-4be1-a4dd-1b85d3741534"
GXPartVariables == "e4c4ade7-53f0-4a56-bdfd-843735b66f47"

\* GXPart: the type attribute, the Source element, the Variable elements
GXPart(type, source, variables) ==
  [Type |-> type, Source |-> source, Variables |-> variables]

\* an Object element of the export file
GXObjectXML(name, type, description, parts) ==
  [Name |-> name, Type |-> type, Description |-> description, Parts |-> parts]

\* the first part of a type, as `for _, part := range parts` finds it
HasPart(parts, type) == \E i \in DOMAIN parts : parts[i].Type = type
FirstPart(parts, type) ==
  parts[CHOOSE i \in DOMAIN parts :
          parts[i].Type = type /\ \A j \in 1..(i - 1) : parts[j].Type # type]

extractProcedureSource(parts) ==
  IF HasPart(parts, GXPartSourceCode)
  THEN TrimSpace(FirstPart(parts, GXPartSourceCode).Source)
  ELSE <<>>

StrParmOpen == <<"P","a","r","m","(">>

extractParmSignature(parts, procedureName) ==
  IF HasPart(parts, GXPartRules)
  THEN LET signature == TrimSpace(FirstPart(parts, GXPartRules).Source)
       IN  IF HasPrefix(signature, StrParmOpen)
           THEN procedureName \o <<"(">> \o TrimPrefix(signature, StrParmOpen)
           ELSE signature
  ELSE <<>>

\* strings.LastIndex of a single character, 0 when absent
LastIndexOf(s, c) ==
  IF \E i \in DOMAIN s : s[i] = c
  THEN CHOOSE i \in DOMAIN s : s[i] = c /\ \A j \in (i + 1)..Len(s) : s[j] # c
  ELSE 0

\* the loop of parseParmParameters over the comma-separated parts
RECURSIVE ParmParts(_)
ParmParts(paramParts) ==
  IF Len(paramParts) = 0 THEN <<>>
  ELSE LET part == TrimSpace(Head(paramParts))
           colonIdx == IndexOf(part, ":")
       IN  IF part # <<>> /\ colonIdx # 0
           THEN <<ParameterDoc(
                    TrimPrefix(TrimSpace(Sub(part, colonIdx + 1, Len(part))), <<"&">>),
                    ToUpper(TrimSpace(Sub(part, 1, colonIdx - 1))),
                    <<>>, <<>>)>> \o ParmParts(Tail(paramParts))
           ELSE ParmParts(Tail(paramParts))

parseParmParameters(parmSignature) ==
  LET start == IndexOf(parmSignature, "(")
      end == LastIndexOf(parmSignature, ")")
  IN  IF parmSignature = <<>> \/ start = 0 \/ end = 0 \/ start >= end THEN <<>>
      ELSE LET paramsStr == Sub(parmSignature, start + 1, end - 1)
           IN  IF TrimSpace(paramsStr) = <<>> THEN <<>>
               ELSE ParmParts(Split(paramsStr, ","))

\* the loop over the properties of one variable: desc and typ
RECURSIVE VariableInfo(_, _)
VariableInfo(props, info) ==
  IF Len(props) = 0 THEN info
  ELSE LET prop == Head(props)
           colonIdx == IndexOf(prop.Value, ":")
           typ == TrimSpace(Sub(prop.Value, colonIdx + 1, Len(prop.Value)))
           commaIdx == IndexOf(typ, ",")
       IN  VariableInfo(Tail(props),
             IF prop.Name = "Description"
             THEN [info EXCEPT !.Description = prop.Value]
             ELSE IF prop.Name = "ATTCUSTOMTYPE"
             THEN [info EXCEPT !.Type =
                     IF colonIdx = 0 THEN prop.Value
                     ELSE IF commaIdx = 0 THEN typ
                     ELSE TrimSpace(Sub(typ, 1, commaIdx - 1))]
             ELSE info)

\* varMap[name]: the entry written last for that name
VarInfoGet(variables, name) ==
  LET hits == {i \in DOMAIN variables : variables[i].attrName = name}
      last == CHOOSE i \in hits : \A j \in hits : j <= i
  IN  VariableInfo(variables[last].props, [Description |-> <<>>, Type |-> <<>>])

enrichParametersWithVariableInfo(params, parts) ==
  LET variables == IF HasPart(parts, GXPartVariables)
                   THEN FirstPart(parts, GXPartVariables).Variables
                   ELSE <<>>
  IN  IF Len(params) = 0 \/ Len(variables) = 0 THEN params
      ELSE [i \in DOMAIN params |->
              IF \E k \in DOMAIN variables : variables[k].attrName = params[i].Name
              THEN LET info == VarInfoGet(variables, params[i].Name)
                   IN  [params[i] EXCEPT
                          !.Description = IF @ = <<>> THEN info.Description ELSE @,
                          !.Type = IF @ = <<>> THEN info.Type ELSE @]
              ELSE params[i]]

\* gxTypeMap[t], "" for a key the map does not hold
gxTypeMap(t) == IF t = GXTypeProcedure THEN "Procedure" ELSE ""

\* typeName of the loop: the mapped name, "Unknown" without one
TypeNameOf(t) == IF gxTypeMap(t) = "" THEN "Unknown" ELSE gxTypeMap(t)

\* mutant of Documentation: the resolver's parameters replace authored ones
Documentation_GraftsAlways(sourceCode, parmSignature, parts) ==
  LET parsed == IF sourceCode # <<>> THEN Parse(sourceCode).doc ELSE NilDocComment
      params == enrichParametersWithVariableInfo(parseParmParameters(parmSignature), parts)
  IN  IF parsed.IsNil /\ parmSignature # <<>>
      THEN [NewDocComment EXCEPT !.IsAutoGenerated = TRUE, !.Parameters = params]
      ELSE IF ~parsed.IsNil /\ parmSignature # <<>>
      THEN [parsed EXCEPT !.Parameters = params]
      ELSE parsed

\* the documentation of a procedure: parsed from the source code, built from
\* the Parm signature without a parsed record, or the parsed record with the
\* parameters of the signature when it has none of its own
Documentation(sourceCode, parmSignature, parts) ==
  LET parsed == IF sourceCode # <<>> THEN Parse(sourceCode).doc ELSE NilDocComment
      params == enrichParametersWithVariableInfo(parseParmParameters(parmSignature), parts)
  IN  IF parsed.IsNil /\ parmSignature # <<>>
      THEN [NewDocComment EXCEPT !.IsAutoGenerated = TRUE, !.Parameters = params]
      ELSE IF ~parsed.IsNil /\ Len(parsed.Parameters) = 0 /\ parmSignature # <<>>
      THEN [parsed EXCEPT !.Parameters = params]
      ELSE parsed

\* the model.GXObject appended for one object of the file
AssembleObject(o, typeName) ==
  LET isProcedure == typeName = "Procedure"
      sourceCode == IF isProcedure THEN extractProcedureSource(o.Parts) ELSE <<>>
      parmSignature == IF isProcedure THEN extractParmSignature(o.Parts, o.Name) ELSE <<>>
  IN  [Name |-> IF o.Description # <<>> THEN o.Description ELSE o.Name,
       Type |-> typeName,
       Path |-> o.Name,
       SourceCode |-> sourceCode,
       ParmSignature |-> parmSignature,
       XMLDescription |-> o.Description,
       Documentation |-> IF isProcedure
                         THEN Documentation(sourceCode, parmSignature, o.Parts)
                         ELSE NilDocComment]

\* objKey: Name + "|" + Type; the keys that reach seenObjects all carry a
\* type of gxTypeMap, so two keys are equal exactly when the pairs are
ObjKey(o) == <<o.Name, o.Type>>

\* mutant of ParseObjects: objects of an unknown kind are kept
RECURSIVE ParseObjects_KeepsUnknown(_, _)
ParseObjects_KeepsUnknown(objs, seenObjects) ==
  IF Len(objs) = 0 THEN <<>>
  ELSE LET o == Head(objs)
           typeName == TypeNameOf(o.Type)
       IN  IF typeName = "Folder" THEN ParseObjects_KeepsUnknown(Tail(objs), seenObjects)
           ELSE IF ObjKey(o) \in seenObjects
           THEN ParseObjects_KeepsUnknown(Tail(objs), seenObjects)
           ELSE <<AssembleObject(o, typeName)>>
                  \o ParseObjects_KeepsUnknown(Tail(objs), seenObjects \cup {ObjKey(o)})

\* the loop of parseGXExportFile over exportFile.Objects
RECURSIVE ParseObjects(_, _)
ParseObjects(objs, seenObjects) ==
  IF Len(objs) = 0 THEN <<>>
  ELSE LET o == Head(objs)
           typeName == TypeNameOf(o.Type)
       IN  IF typeName = "Folder" \/ typeName = "Unknown"
           THEN ParseObjects(Tail(objs), seenObjects)
           ELSE IF ObjKey(o) \in seenObjects
           THEN ParseObjects(Tail(objs), seenObjects)
           ELSE <<AssembleObject(o, typeName)>>
                  \o ParseObjects(Tail(objs), seenObjects \cup {ObjKey(o)})

\* a file of the archive: its name, whether it is a directory entry,
\* whether writing it to the temporary directory fails, whether its content
\* decodes as an export file, and the decoded knowledge-base name and objects
ArchiveFile(name, isDir, ioFails, decodes, kbName, objects) ==
  [Name |-> name, IsDir |-> isDir, IoFails |-> ioFails, Decodes |-> decodes,
   KBName |-> kbName, Objects |-> objects]

\* parseGXExportFile: objects, kbName and err
parseGXExportFile(file) ==
  IF ~file.Decodes THEN [objects |-> <<>>, kbName |-> <<>>, err |-> "decode"]
  ELSE [objects |-> ParseObjects(file.Objects, {}), kbName |-> file.KBName, err |-> "nil"]

\* strings.HasSuffix
HasSuffix(s, p) == Len(p) <= Len(s) /\ Sub(s, Len(s) - Len(p) + 1, Len(s)) = p

StrDotXml == <<".","x","m","l">>

\* strings.HasSuffix(strings.ToLower(file.Name), ".xml")
IsXmlName(name) == HasSuffix(ToLower(name), StrDotXml)

\* *ExtractResult and error as Extract returns them
NilResult == [IsNil |-> TRUE, Objects |-> <<>>, KBName |-> <<>>, err |-> "nil"]

(***************************************************************************)
(* The state machine: one object is resolved, then its parameters are      *)
(* enriched.                                                               *)
(***************************************************************************)
VARIABLES procedureName, obj, pc, byRule, sig, enriched,
          rawType, cleaned, recleaned,
          given, again,
          sourceCode, doc, err,
          archive, fileIdx, objects, kbName,
          parsedObjects, extractedKBName, parseErr, result

\* the argument and the results of the calls of cleanType
typeVars == <<rawType, cleaned, recleaned>>
\* the argument of a direct call of the enricher and the result of a
\* second call on the result of the first
enrichVars == <<given, again>>
\* the argument and the result of parser.Parse
parseVars == <<sourceCode, doc, err>>

\* the archive, the loop position and the locals of Extract, what the last
\* call of parseGXExportFile returned, and what Extract returns
extractVars == <<archive, fileIdx, objects, kbName,
                 parsedObjects, extractedKBName, parseErr, result>>

vars == <<procedureName, obj, pc, byRule, sig, enriched,
          rawType, cleaned, recleaned, given, again, sourceCode, doc, err,
          archive, fileIdx, objects, kbName,
          parsedObjects, extractedKBName, parseErr, result>>

\* the variables of the calls a specification does not make
NoTypeCall == rawType = <<>> /\ cleaned = <<>> /\ recleaned = <<>>
NoEnrichCall == given = <<>> /\ again = <<>>
NoParseCall == sourceCode = <<>> /\ doc = NilDocComment /\ err = "nil"
NoExtractCall ==
  /\ archive = <<>> /\ fileIdx = 0 /\ objects = <<>> /\ kbName = <<>>
  /\ parsedObjects = <<>> /\ extractedKBName = <<>> /\ parseErr = "nil"
  /\ result = NilResult

Init ==
  /\ \E input \in Inputs : obj = input[1] /\ procedureName = input[2]
  /\ pc = "start"
  /\ byRule = ZeroSignature
  /\ sig = ZeroSignature
  /\ enriched = <<>>
  /\ NoTypeCall /\ NoEnrichCall /\ NoParseCall /\ NoExtractCall

\* sig := ExtractProcedureSignature(objNode, procedureName); byRule is the
\* local of its first attempt, the result of extractFromParmRule
Resolve ==
  /\ pc = "start"
  /\ byRule' = extractFromParmRule(obj, procedureName)
  /\ sig' = ExtractProcedureSignature(obj, procedureName)
  /\ pc' = "resolved"
  /\ UNCHANGED <<procedureName, obj, enriched, typeVars, enrichVars, parseVars, extractVars>>

\* params = EnrichWithVariableMetadata(sig.Parameters, objNode); the slice
\* is filled in place, so sig.Parameters shows the filled fields too
Enrich ==
  /\ pc = "resolved"
  /\ enriched' = EnrichWithVariableMetadata(sig.Parameters, obj)
  /\ sig' = [sig EXCEPT !.Parameters = enriched']
  /\ pc' = "enriched"
  /\ UNCHANGED <<procedureName, obj, byRule, typeVars, enrichVars, parseVars, extractVars>>

Next == Resolve \/ Enrich

Spec == Init /\ [][Next]_vars

(***************************************************************************)
(* What the claims speak of, stated without the resolver's own steps.      *)
(***************************************************************************)
\* the rules source the resolver reads: absent part and blank text are ""
RulesSource == GetText(obj.hasRules, obj.rulesText)

\* a line whose first characters after white space are //
RefIsCommentLine(line) ==
  \E k \in 1..(Len(line) - 1) :
    /\ line[k] = "/" /\ line[k + 1] = "/"
    /\ \A j \in 1..(k - 1) : IsSpace(line[j])

\* the source with its comment lines removed
RefWithoutComments(src) ==
  Join(SelectSeq(Split(src, "\n"), LAMBDA l : ~RefIsCommentLine(l)), <<"\n">>)

\* the positions where a call parm ( ... ) starts: the token in any letter
\* case, white space, the parenthesis, and a closing one on the same line
RefCallStarts(a) ==
  { i \in 1..Len(a) :
      /\ HasPrefixFoldAt(a, i, StrParm)
      /\ \E o \in (i + 4)..Len(a) :
           /\ a[o] = "("
           /\ \A j \in (i + 4)..(o - 1) : IsSpace(a[j])
           /\ \E c \in (o + 1)..Len(a) :
                a[c] = ")" /\ \A j \in (o + 1)..(c - 1) : a[j] \notin {")", "\n"} }

RefHasCall(a) == RefCallStarts(a) # {}

\* the first call: where it starts, its parentheses, its argument list
RefCallStart(a) == CHOOSE x \in RefCallStarts(a) : \A y \in RefCallStarts(a) : x <= y
RefCallOpen(a) ==
  LET from == RefCallStart(a) + 4
  IN  CHOOSE x \in from..Len(a) : a[x] = "(" /\ \A y \in from..(x - 1) : a[y] # "("
RefCallClose(a) ==
  LET from == RefCallOpen(a) + 1
  IN  CHOOSE x \in from..Len(a) : a[x] = ")" /\ \A y \in from..(x - 1) : a[y] # ")"
RefCallArgs(a) == Sub(a, RefCallOpen(a) + 1, RefCallClose(a) - 1)

\* the ways a trimmed segment reads as <direction> : & <name>
RefSegmentReadings(p) ==
  { r \in {2, 3, 5} \X (1..(Len(p) - 1)) :
      /\ r[1] < r[2]
      /\ ToLower(Sub(p, 1, r[1])) \in {StrIn, StrOut, StrInout}
      /\ p[r[2]] = "&"
      /\ \E c \in (r[1] + 1)..(r[2] - 1) :
           /\ p[c] = ":"
           /\ \A j \in ((r[1] + 1)..(r[2] - 1)) \ {c} : IsSpace(p[j]) }

RefSegmentConforms(seg) == RefSegmentReadings(TrimSpace(seg)) # {}

\* the parameter a conforming segment declares
RefSegmentParam(seg) ==
  LET p == TrimSpace(seg)
      r == CHOOSE x \in RefSegmentReadings(p) : TRUE
  IN  ParameterDoc(TrimSpace(Sub(p, r[2] + 1, Len(p))), ToUpper(Sub(p, 1, r[1])), <<>>, <<>>)

\* one parameter per conforming segment of an argument list, in order
RefDeclaredParams(args) ==
  LET segs == SelectSeq(Split(args, ","), RefSegmentConforms)
  IN  [i \in DOMAIN segs |-> RefSegmentParam(segs[i])]

\* a valid declaration: a call whose argument list is blank or has at
\* least one conforming segment
RefValidDeclaration(src) ==
  LET a == RefWithoutComments(src)
  IN  /\ RefHasCall(a)
      /\ \/ TrimSpace(RefCallArgs(a)) = <<>>
         \/ RefDeclaredParams(RefCallArgs(a)) # <<>>

\* the value of the last property named n of a variable, trimmed
RefHasProp(v, n) == \E i \in DOMAIN v.props : v.props[i].Name = n
RefLastProp(v, n) ==
  LET hits == {i \in DOMAIN v.props : v.props[i].Name = n}
  IN  TrimSpace(v.props[CHOOSE i \in hits : \A j \in hits : j <= i].Value)

\* a variable flagged IsParm with a declared name
RefQualifies(v) ==
  /\ RefHasProp(v, "IsParm") /\ RefLastProp(v, "IsParm") \in {StrTrue, StrTrueLower}
  /\ RefHasProp(v, "Name") /\ RefLastProp(v, "Name") # <<>>

RefQualifying == IF obj.hasVars THEN SelectSeq(obj.variables, RefQualifies) ELSE <<>>

EndsWith(s, e) == Len(e) <= Len(s) /\ Sub(s, Len(s) - Len(e) + 1, Len(s)) = e

(***************************************************************************)
(* Claims                                                                  *)
(***************************************************************************)

RefCallTerminated(a) ==
  /\ RefHasCall(a)
  /\ RefCallClose(a) < Len(a)
  /\ a[RefCallClose(a) + 1] = ";"

\* C2: in every extraction mode the RawSignature of the resolved Signature
\* ends in `);`, whatever text the rules source holds before or after the
\* parm call (a call terminated by `;`).
C2_RawSignatureEndsCall ==
  (/\ pc = "resolved"
   /\ (sig.ExtractionMode = "ParmRule"
         => RefCallTerminated(RefWithoutComments(RulesSource))))
    => EndsWith(sig.RawSignature, <<")", ";">>)

\* a rules source of the form parm(seg1, seg2, ...) with an optional `;`
RefIsParmForm(src) ==
  /\ RefWithoutComments(src) = src
  /\ RefHasCall(src)
  /\ RefCallStart(src) = 1
  /\ Sub(src, RefCallClose(src) + 1, Len(src)) \in {<<>>, <<";">>}

RefPlainArgs(args) ==
  \A j \in DOMAIN args :
    IsSpace(args[j]) =>
      LET left == {k \in 1..(j - 1) : ~IsSpace(args[k])}
          right == {k \in (j + 1)..Len(args) : ~IsSpace(args[k])}
      IN  /\ left # {} /\ right # {}
          /\ LET l == args[CHOOSE k \in left : \A m \in left : m <= k]
                 r == args[CHOOSE k \in right : \A m \in right : k <= m]
             IN  l = "," \/ (l = ":" /\ r = "&")

\* <dir1>:&<name1>, <dir2>:&<name2>, ... with lower-case directions
RECURSIVE RefArgText(_)
RefArgText(params) ==
  IF Len(params) = 0 THEN <<>>
  ELSE ToLower(params[1].Direction) \o <<":", "&">> \o params[1].Name
         \o (IF Len(params) = 1 THEN <<>> ELSE <<",", " ">> \o RefArgText(Tail(params)))

\* C4: in ParmRule mode the RawSignature is the parm declaration with the
\* parm token replaced by the object name, every direction keyword in lower
\* case, no white space between `:` and `&`, one space after each comma.
C4_ParmRuleRawSignature ==
  (/\ pc = "resolved"
   /\ RefIsParmForm(RulesSource)
   /\ RefPlainArgs(RefCallArgs(RulesSource))
   /\ \A i \in DOMAIN Split(RefCallArgs(RulesSource), ",") :
        RefSegmentConforms(Split(RefCallArgs(RulesSource), ",")[i]))
    => sig.RawSignature =
         procedureName \o <<"(">> \o RefArgText(RefDeclaredParams(RefCallArgs(RulesSource)))
           \o Sub(RulesSource, RefCallClose(RulesSource), Len(RulesSource))

\* C5: comment lines of the rules source never contribute: the result is
\* that of the source without them, and a source of commented-out parm
\* calls only, with no IsParm variable, resolves to None without parameters.
C5_CommentLinesIgnored ==
  (pc = "resolved" /\ obj.hasRules)
    => /\ sig = ExtractProcedureSignature(
                  [obj EXCEPT !.rulesText = RefWithoutComments(RulesSource)], procedureName)
       /\ (/\ RulesSource # <<>>
           /\ \A i \in DOMAIN Split(RulesSource, "\n") :
                RefIsCommentLine(Split(RulesSource, "\n")[i])
           /\ RefQualifying = <<>>)
            => (sig.ExtractionMode = "None" /\ sig.Parameters = <<>>)

C5_Witness ==
  /\ pc = "resolved"
  /\ \E i \in DOMAIN Split(RulesSource, "\n") :
       LET line == Split(RulesSource, "\n")[i]
       IN  /\ RefIsCommentLine(line) /\ RefHasCall(line)
           /\ RefDeclaredParams(RefCallArgs(line)) # <<>>
           /\ sig.Parameters # RefDeclaredParams(RefCallArgs(line))
  /\ sig.ExtractionMode = "ParmRule"

C7_BlankArgumentList ==
  (/\ pc = "resolved"
   /\ RefHasCall(RefWithoutComments(RulesSource))
   /\ TrimSpace(RefCallArgs(RefWithoutComments(RulesSource))) = <<>>)
    => sig = [Parameters |-> <<>>, IsNil |-> FALSE,
              RawSignature |-> procedureName \o <<"(", ")", ";">>,
              ExtractionMode |-> "ParmRule"]

C7_Witness ==
  /\ pc = "resolved"
  /\ RefHasCall(RefWithoutComments(RulesSource))
  /\ RefCallArgs(RefWithoutComments(RulesSource)) = <<" ">>
  /\ RefQualifying # <<>>
  /\ sig.ExtractionMode = "ParmRule"

\* C8: in the IsParm strategy a variable becomes a parameter iff its IsParm
\* flag is true and its declared name is non-empty; every parameter has
\* Direction IN; the parameters keep the order of the variables; the
\* RawSignature is <Name>(in:&p1, in:&p2, ...); without a qualifying
\* variable the resolver falls through to None.
C8_IsParmStrategy ==
  (pc = "resolved" /\ ~RefValidDeclaration(RulesSource))
    => IF RefQualifying # <<>>
       THEN /\ sig.ExtractionMode = "IsParm"
            /\ Len(sig.Parameters) = Len(RefQualifying)
            /\ \A i \in DOMAIN sig.Parameters :
                 /\ sig.Parameters[i].Name = RefLastProp(RefQualifying[i], "Name")
                 /\ sig.Parameters[i].Direction = <<"I", "N">>
            /\ sig.RawSignature =
                 procedureName \o <<"(">> \o RefArgText(sig.Parameters) \o <<")", ";">>
       ELSE sig.ExtractionMode = "None"

C8_Witness ==
  /\ pc = "resolved"
  /\ sig.ExtractionMode = "IsParm"
  /\ Len(sig.Parameters) = 2
  /\ sig.Parameters[1].Name # sig.Parameters[2].Name
  /\ sig.RawSignature = <<"P","(","i","n",":","&","b",","," ","i","n",":","&","a",")",";">>

\* the type the claim gives a variable
RefClaimedType(v) ==
  IF RefHasProp(v, "ATTCUSTOMTYPE") THEN cleanType(RefLastProp(v, "ATTCUSTOMTYPE"))
  ELSE IF \E i \in DOMAIN v.props :
            /\ v.props[i].Name = "idBasedOn"
            /\ HasPrefix(TrimSpace(v.props[i].Value), StrAttributePrefix)
       THEN <<"-">>
       ELSE <<>>

\* the last variable whose Name attribute is n
RefLastVariable(n) ==
  LET hits == {i \in DOMAIN obj.variables : TrimSpace(obj.variables[i].attrName) = n}
  IN  obj.variables[CHOOSE i \in hits : \A j \in hits : j <= i]

\* C9: in the variable-property scan of the IsParm strategy and of the
\* enricher, a variable's type is cleanType of its custom-type property
\* whenever that property is present, in whatever order the properties
\* stand; it is "-" only when no type property is present and idBasedOn
\* starts with Attribute:.
C9_TypeFromCustomTypeProperty ==
  /\ (pc = "resolved" /\ sig.ExtractionMode = "IsParm")
       => \A i \in DOMAIN sig.Parameters :
            sig.Parameters[i].Type = RefClaimedType(RefQualifying[i])
  /\ (pc = "enriched" /\ sig.ExtractionMode = "ParmRule" /\ obj.hasVars)
       => \A i \in DOMAIN enriched :
            (\E k \in DOMAIN obj.variables :
                /\ enriched[i].Name # <<>>
                /\ TrimSpace(obj.variables[k].attrName) = enriched[i].Name)
              => enriched[i].Type = RefClaimedType(RefLastVariable(enriched[i].Name))

\* C10: ExtractProcedureSignature is total, and whenever neither the
\* ParmRule nor the IsParm strategy succeeds the result is exactly
\* ExtractionMode None, an empty non-nil parameter list and <Name>();.
C10_TotalWithNoneFallback ==
  /\ pc = "start"
       => ExtractProcedureSignature(obj, procedureName).ExtractionMode
            \in {"ParmRule", "IsParm", "None"}
  /\ pc = "resolved"
       => /\ sig.ExtractionMode \in {"ParmRule", "IsParm", "None"}
          /\ ~sig.IsNil
          /\ (~RefValidDeclaration(RulesSource) /\ RefQualifying = <<>>)
               => sig = [Parameters |-> <<>>, IsNil |-> FALSE,
                         RawSignature |-> procedureName \o <<"(", ")", ";">>,
                         ExtractionMode |-> "None"]

C10_Witness ==
  /\ pc = "resolved"
  /\ ~obj.hasRules /\ ~obj.hasVars
  /\ procedureName = StrGetUser
  /\ sig.ExtractionMode = "None"
  /\ sig.RawSignature = StrGetUser \o <<"(", ")", ";">>

\* C27: when the rules source without its comment lines holds a parm call
\* with a non-blank argument list, the resolver returns ExtractionMode
\* ParmRule with exactly the conforming segments as Parameters, also when
\* only some or none of the segments conform; it never falls through to
\* IsParm or None.
C27_NonBlankCallIsParmRule ==
  LET a == RefWithoutComments(RulesSource)
  IN  (pc = "resolved" /\ RefHasCall(a) /\ TrimSpace(RefCallArgs(a)) # <<>>)
        => /\ sig.ExtractionMode = "ParmRule"
           /\ sig.Parameters = RefDeclaredParams(RefCallArgs(a))

\* C30: in every extraction mode the argument list shown in RawSignature is
\* exactly the entries <lower-case direction>:&<Name> of Parameters, in the
\* same order, separated by a comma and a space, and nothing else.
C30_RawSignatureShowsParameters ==
  pc = "resolved"
    => IndexOfStr(sig.RawSignature,
                  <<"(">> \o RefArgText(sig.Parameters) \o <<")">>) # 0

(***************************************************************************)
(* The Type Normalizer on its own: cleanType is called on a raw type name, *)
(* then on its own result.                                                 *)
(***************************************************************************)
\* the variables of the resolver while no object is resolved
NoResolverCall ==
  /\ procedureName = <<>>
  /\ obj = Object(FALSE, <<>>, FALSE, <<>>)
  /\ byRule = ZeroSignature
  /\ sig = ZeroSignature
  /\ enriched = <<>>

TypeChars == {"N", ":", ",", " "}

StrBasBoolean == <<"b","a","s",":","B","o","o","l","e","a","n">>
StrBcUser == <<"b","c",":","U","s","e","r">>
StrSdtMessages ==
  <<"s","d","t",":","M","e","s","s","a","g","e","s",","," ",
    "G","e","n","e","X","u","s",".","C","o","m","m","o","n">>
StrCharacter == <<"C","h","a","r","a","c","t","e","r">>
StrAttributeUserId == StrAttributePrefix \o <<"U","s","e","r","I","d">>

\* the type names of the tests, names with the Attribute: marker in every
\* place, and every short text over a letter, `:`, `,` and a blank
TypeInputs ==
  SeqsUpTo(TypeChars, MaxTypeLen)
    \cup {StrBasBoolean, StrBcUser, StrSdtMessages, StrCharacter, StrAttributeUserId}
    \cup {StrAttributePrefix \o t : t \in SeqsUpTo(TypeChars, 2)}
    \cup { <<" ">> \o StrAttrX \o <<" ">>,
           <<"b","c",":">> \o StrAttrX,
           <<"a","t","t","r","i","b","u","t","e",":","X">>,
           <<"A","t","t","r","i","b","u","t","e">> }

InitType ==
  /\ rawType \in TypeInputs
  /\ cleaned = <<>>
  /\ recleaned = <<>>
  /\ pc = "raw"
  /\ NoResolverCall /\ NoEnrichCall /\ NoParseCall /\ NoExtractCall

\* cleaned := cleanType(rawType)
Clean ==
  /\ pc = "raw"
  /\ cleaned' = cleanType(rawType)
  /\ pc' = "cleaned"
  /\ UNCHANGED <<procedureName, obj, byRule, sig, enriched, rawType, recleaned,
                 enrichVars, parseVars, extractVars>>

\* recleaned := cleanType(cleaned)
CleanAgain ==
  /\ pc = "cleaned"
  /\ recleaned' = cleanType(cleaned)
  /\ pc' = "recleaned"
  /\ UNCHANGED <<procedureName, obj, byRule, sig, enriched, rawType, cleaned,
                 enrichVars, parseVars, extractVars>>

NextType == Clean \/ CleanAgain

SpecType == InitType /\ [][NextType]_vars

\* C11: cleanType is idempotent: cleaning the result of cleanType again
\* gives the same text, for every input, also one with more than one `:`
\* or with white space around the part after the colon.
C11_CleanTypeIdempotent ==
  pc = "recleaned" => recleaned = cleaned

\* the positions of a character in a text, and the first of them
RefPositions(t, c) == {i \in DOMAIN t : t[i] = c}
RefFirst(S) == CHOOSE i \in S : \A j \in S : i <= j

\* the reference rule on a raw type name taken without the white space
\* around it: the text after the first `:`, cut before its first comma and
\* trimmed when it has one; the name itself when it has no `:` or starts
\* with Attribute:
RefCleanType(raw) ==
  LET t == TrimSpace(raw)
      colons == RefPositions(t, ":")
      marked == /\ Len(t) >= Len(StrAttributePrefix)
                /\ \A k \in DOMAIN StrAttributePrefix : t[k] = StrAttributePrefix[k]
  IN  IF colons = {} \/ marked THEN t
      ELSE LET commas == {i \in RefPositions(t, ",") : i > RefFirst(colons)}
           IN  IF commas = {} THEN Sub(t, RefFirst(colons) + 1, Len(t))
               ELSE TrimSpace(Sub(t, RefFirst(colons) + 1, RefFirst(commas) - 1))

\* C12: cleanType(raw) is the result of the reference rule for every input,
\* and bas:Boolean gives Boolean, bc:User gives User,
\* sdt:Messages, GeneXus.Common gives Messages, Character gives Character,
\* Attribute:UserId gives Attribute:UserId.
C12_CleanTypeReferenceRule ==
  pc = "cleaned"
    => /\ cleaned = RefCleanType(rawType)
       /\ (rawType = StrBasBoolean) => cleaned = <<"B","o","o","l","e","a","n">>
       /\ (rawType = StrBcUser) => cleaned = <<"U","s","e","r">>
       /\ (rawType = StrSdtMessages) => cleaned = <<"M","e","s","s","a","g","e","s">>
       /\ (rawType = StrCharacter) => cleaned = StrCharacter
       /\ (rawType = StrAttributeUserId) => cleaned = StrAttributeUserId

C12_Witness ==
  /\ pc = "cleaned"
  /\ rawType = StrSdtMessages
  /\ cleaned = <<"M","e","s","s","a","g","e","s">>

\* the custom-type property of a variable carries the Attribute: marker
RefCarriesMarker(v) ==
  /\ RefHasProp(v, "ATTCUSTOMTYPE")
  /\ HasPrefix(RefLastProp(v, "ATTCUSTOMTYPE"), StrAttributePrefix)

\* C13: the Attribute: marker is normalized downstream to "-": no parameter
\* produced by the IsParm strategy or filled by the enricher has a Type
\* that starts with Attribute:, a variable whose type property carries the
\* marker yields Type "-", and cleanType itself leaves the marker in place.
C13_AttributeMarkerNormalized ==
  /\ (pc = "resolved" /\ sig.ExtractionMode = "IsParm")
       => \A i \in DOMAIN sig.Parameters :
            /\ ~HasPrefix(sig.Parameters[i].Type, StrAttributePrefix)
            /\ RefCarriesMarker(RefQualifying[i]) => sig.Parameters[i].Type = <<"-">>
            /\ RefCarriesMarker(RefQualifying[i])
                 => HasPrefix(cleanType(RefLastProp(RefQualifying[i], "ATTCUSTOMTYPE")),
                              StrAttributePrefix)
  /\ pc = "enriched"
       => \A i \in DOMAIN enriched : ~HasPrefix(enriched[i].Type, StrAttributePrefix)

(***************************************************************************)
(* The Metadata Enricher on its own: EnrichWithVariableMetadata is called  *)
(* on a parameter list and an object, then again on its own result.        *)
(***************************************************************************)
StrT == <<"T">>
StrOUT == <<"O","U","T">>
StrINOUT == <<"I","N","O","U","T">>

\* parameters with every combination of known and missing fields
GivenParameters ==
  { ParameterDoc(<<"a">>, StrIN, <<>>, <<>>),
    ParameterDoc(<<"a">>, StrOUT, StrT, <<>>),
    ParameterDoc(<<"a">>, StrIN, <<>>, <<"g">>),
    ParameterDoc(<<"b">>, StrINOUT, StrT, <<"g">>),
    ParameterDoc(<<"b">>, StrIN, <<>>, <<>>),
    ParameterDoc(<<"c">>, StrOUT, <<>>, <<>>) }

\* variables with a type, a description, both or none, a name used twice
\* and a Variable element without a name
MetaVariables ==
  { Variable(<<"a">>, <<Prop("ATTCUSTOMTYPE", StrBasN), Prop("Description", <<"d">>)>>),
    Variable(<<" ","a">>, <<Prop("Description", <<"e">>)>>),
    Variable(<<"b">>, <<Prop("idBasedOn", StrAttrX)>>),
    Variable(<<"b">>, <<Prop("IsParm", StrTrue), Prop("ATTCUSTOMTYPE", StrBasN)>>),
    Variable(<<>>, <<Prop("ATTCUSTOMTYPE", StrBasN), Prop("Description", <<"d">>)>>) }

MetaObjects ==
  {Object(FALSE, <<>>, FALSE, <<>>)}
    \cup {Object(FALSE, <<>>, TRUE, vs) : vs \in SeqsUpTo(MetaVariables, MaxVars)}

InitEnrich ==
  /\ obj \in MetaObjects
  /\ given \in SeqsUpTo(GivenParameters, MaxParams)
  /\ enriched = <<>>
  /\ again = <<>>
  /\ pc = "given"
  /\ procedureName = <<>>
  /\ byRule = ZeroSignature
  /\ sig = ZeroSignature
  /\ NoTypeCall /\ NoParseCall /\ NoExtractCall

\* enriched := EnrichWithVariableMetadata(given, objNode)
EnrichGiven ==
  /\ pc = "given"
  /\ enriched' = EnrichWithVariableMetadata(given, obj)
  /\ pc' = "once"
  /\ UNCHANGED <<procedureName, obj, byRule, sig, given, again, typeVars, parseVars, extractVars>>

\* again := EnrichWithVariableMetadata(enriched, objNode)
EnrichAgain ==
  /\ pc = "once"
  /\ again' = EnrichWithVariableMetadata(enriched, obj)
  /\ pc' = "twice"
  /\ UNCHANGED <<procedureName, obj, byRule, sig, given, enriched, typeVars, parseVars, extractVars>>

NextEnrich == EnrichGiven \/ EnrichAgain

SpecEnrich == InitEnrich /\ [][NextEnrich]_vars

\* the variables part has a Variable element named n
RefHasVariable(n) ==
  obj.hasVars /\ \E k \in DOMAIN obj.variables : TrimSpace(obj.variables[k].attrName) = n

\* type and description of the variable named n (the last one so named)
RefVariableMeta(n) == MetaProps(RefLastVariable(n).props, MetaStart)

\* C14: enrichment never overwrites a non-empty field: a parameter whose
\* Type is non-empty has the same Type afterwards, one whose Description is
\* non-empty has the same Description afterwards, and an empty Type or
\* Description is filled from the variable of the same name when one exists.
C14_EnrichKeepsKnownFields ==
  pc = "once"
    => /\ DOMAIN enriched = DOMAIN given
       /\ \A i \in DOMAIN given :
            /\ given[i].Type # <<>> => enriched[i].Type = given[i].Type
            /\ given[i].Description # <<>> => enriched[i].Description = given[i].Description
            /\ (given[i].Type = <<>> /\ RefHasVariable(given[i].Name))
                 => enriched[i].Type = RefVariableMeta(given[i].Name).Type
            /\ (given[i].Description = <<>> /\ RefHasVariable(given[i].Name))
                 => enriched[i].Description = RefVariableMeta(given[i].Name).Description

C14_Witness ==
  /\ pc = "once"
  /\ Len(given) = 1
  /\ given[1].Type = StrT
  /\ given[1].Description = <<>>
  /\ RefHasVariable(given[1].Name)
  /\ RefVariableMeta(given[1].Name).Type = <<"N">>
  /\ enriched[1].Type = StrT
  /\ enriched[1].Description = <<"d">>

\* C15: EnrichWithVariableMetadata is idempotent: enriching the enriched
\* list with the same metadata again gives the enriched list.
C15_EnrichIdempotent ==
  pc = "twice" => again = enriched

C15_Witness ==
  /\ pc = "twice"
  /\ Len(given) = 2
  /\ enriched[1] # given[1]
  /\ enriched[2].Description # given[2].Description
  /\ again = enriched

\* C16: EnrichWithVariableMetadata changes nothing but empty Type and
\* Description fields of parameters that have a variable of the same name:
\* number and order of the parameters, every Name and every Direction stay;
\* a parameter without such a variable is returned unchanged; without a
\* variables part the whole list is returned unchanged.
C16_EnrichFrame ==
  pc = "once"
    => /\ Len(enriched) = Len(given)
       /\ \A i \in DOMAIN given :
            /\ enriched[i].Name = given[i].Name
            /\ enriched[i].Direction = given[i].Direction
            /\ ~RefHasVariable(given[i].Name) => enriched[i] = given[i]
            /\ enriched[i].Type # given[i].Type => given[i].Type = <<>>
            /\ enriched[i].Description # given[i].Description => given[i].Description = <<>>
       /\ ~obj.hasVars => enriched = given

C16_Witness ==
  /\ pc = "once"
  /\ obj.hasVars
  /\ Len(given) = 2
  /\ ~RefHasVariable(given[1].Name)
  /\ RefHasVariable(given[2].Name)
  /\ enriched[1] = given[1]
  /\ enriched[2] # given[2]

(***************************************************************************)
(* The Annotation Comment Parser on its own: Parse is called on a source   *)
(* text.                                                                   *)
(***************************************************************************)
\* lines of an annotation block: @param lines with and without direction,
\* type and description, with one token only, with irregular white space;
\* @tag lines; other tags; free text; a blank line
BlockLines ==
  {
    <<"@","p","a","r","a","m"," ","a"," ","I","N","O","U","T"," ","T"," ","-",
          " ","d">>,
    <<"@","p","a","r","a","m"," ","b"," ","N"," ","-"," ","e"," ","-"," ","f">>,
    <<"@","p","a","r","a","m"," ","a"," ","i","n","o","u","t">>,
    <<"@","p","a","r","a","m"," ","c">>,
    <<"@","p","a","r","a","m"," ","c"," ","-"," ","d"," ","e">>,
    <<"@","p","a","r","a","m"," "," ","a","\t","O","u","t"," "," ","T"," "," ",
          "x"," ","-"," "," ","d">>,
    <<"@","t","a","g"," ","X">>,
    <<"@","t","a","g"," ","Y">>,
    <<"@","t","a","g">>,
    <<"@","s","u","m","m","a","r","y"," ","S">>,
    <<"@","o","t","h","e","r"," ","z">>,
    <<"@","d","e","p","r","e","c","a","t","e","d"," ","u","s","e"," ","b">>,
    <<"t","e","x","t">>,
    <<>> }

StrOrderData == <<"O","r","d","e","r","D","a","t","a">>
StrCustomerID == <<"C","u","s","t","o","m","e","r","I","D">>

\* sources without a block, with an empty block, and the block of the two
\* documented examples
FixedSources ==
  {
    <<>>,
    <<"x",";">>,
    <<"/","*"," ","@","t","a","g"," ","X"," ","*","/">>,
    <<"/","*","*"," ","@","t","a","g"," ","X">>,
    <<"/","*","*","/">>,
    <<"*","/"," ","@","t","a","g"," ","X"," ","/","*","*">>,
    <<"/","*","*","*","/">>,
    <<"/","*","*"," ","*","/">>,
    <<"/","*","*"," ","*"," ","*","/">>,
    <<"/","*","*","\n"," ","*"," ","@","p","a","r","a","m"," ","O","r","d","e",
          "r","D","a","t","a"," ","I","N","O","U","T"," ","s","d","t","O","r",
          "d","e","r"," ","-"," ","O","r","d","e","r"," ","i","n","f","o","r",
          "m","a","t","i","o","n","\n"," ","*"," ","@","p","a","r","a","m"," ",
          "C","u","s","t","o","m","e","r","I","D"," ","N","u","m","e","r","i",
          "c"," ","-"," ","C","u","s","t","o","m","e","r"," ","i","d","e","n",
          "t","i","f","i","e","r","\n"," ","*","/","\n","x",";">> }

\* a block in the usual layout, one ` * ` line per entry, followed by code
StarLayout(lines) ==
  <<"/","*","*","\n">>
    \o Join([k \in DOMAIN lines |-> <<" ","*"," ">> \o lines[k]], <<"\n">>)
    \o <<"\n"," ","*","/","\n","x",";">>

\* a block without the leading stars, after code and before a second block
PlainLayout(lines) ==
  <<"x",";","\n","/","*","*"," ">> \o Join(lines, <<"\n">>)
    \o <<" ","*","/"," ","/","*","*"," ","@","t","a","g"," ","Z"," ","*","/">>

ParseSources ==
  FixedSources
    \cup {StarLayout(ls) : ls \in SeqsUpTo(BlockLines, MaxLines)}
    \cup {PlainLayout(ls) : ls \in SeqsUpTo(BlockLines, MaxLines)}

InitParse ==
  /\ sourceCode \in ParseSources
  /\ doc = NilDocComment
  /\ err = "nil"
  /\ pc = "source"
  /\ NoResolverCall /\ NoTypeCall /\ NoEnrichCall /\ NoExtractCall

\* doc, err := parser.Parse(sourceCode)
ParseSource ==
  /\ pc = "source"
  /\ doc' = Parse(sourceCode).doc
  /\ err' = Parse(sourceCode).err
  /\ pc' = "parsed"
  /\ UNCHANGED <<procedureName, obj, byRule, sig, enriched, typeVars, enrichVars,
                 sourceCode, extractVars>>

NextParse == ParseSource

SpecParse == InitParse /\ [][NextParse]_vars

\* where a block /** ... */ can start and end: the opening mark, and a
\* closing mark that does not share a star with it
RefBlockStarts(s) ==
  { i \in 1..Len(s) :
      /\ i + 2 <= Len(s) /\ s[i] = "/" /\ s[i + 1] = "*" /\ s[i + 2] = "*"
      /\ \E j \in (i + 3)..(Len(s) - 1) : s[j] = "*" /\ s[j + 1] = "/" }

RefHasBlock(s) == RefBlockStarts(s) # {}

\* the text between the marks of the first block
RefBlockText(s) ==
  LET i == CHOOSE x \in RefBlockStarts(s) : \A y \in RefBlockStarts(s) : x <= y
      closes == {j \in (i + 3)..(Len(s) - 1) : s[j] = "*" /\ s[j + 1] = "/"}
  IN  Sub(s, i + 3, (CHOOSE x \in closes : \A y \in closes : x <= y) - 1)

\* a line without the white space around it, without one leading star and
\* the white space after it
RefStripLine(line) ==
  LET t == TrimSpace(line)
  IN  IF t # <<>> /\ t[1] = "*" THEN TrimSpace(Sub(t, 2, Len(t))) ELSE t

\* the lines of the first block, none when there is no block
RefBlockLines(s) ==
  IF ~RefHasBlock(s) THEN <<>>
  ELSE LET raw == Split(RefBlockText(s), "\n")
       IN  [k \in DOMAIN raw |-> RefStripLine(raw[k])]

\* the first word of a line, up to its first blank, and the rest, trimmed
RefTagWord(line) ==
  IF \E k \in DOMAIN line : line[k] = " "
  THEN Sub(line, 1, (CHOOSE k \in DOMAIN line :
                       line[k] = " " /\ \A j \in 1..(k - 1) : line[j] # " ") - 1)
  ELSE line
RefRemainder(line) == TrimSpace(Sub(line, Len(RefTagWord(line)) + 2, Len(line)))

\* the lines of the block that carry the tag, in line order
RefTagLines(s, tag) == SelectSeq(RefBlockLines(s), LAMBDA l : RefTagWord(l) = tag)

\* the n-th smallest element of a set of numbers
RefNth(S, n) == CHOOSE x \in S : Cardinality({y \in S : y < x}) = n - 1

\* the white-space separated tokens of a text
RefTokens(t) ==
  LET starts == {i \in DOMAIN t : ~IsSpace(t[i]) /\ (i = 1 \/ IsSpace(t[i - 1]))}
      stop(i) == CHOOSE j \in i..Len(t) :
                   /\ \A k \in i..j : ~IsSpace(t[k])
                   /\ (j = Len(t) \/ IsSpace(t[j + 1]))
  IN  [n \in 1..Cardinality(starts) |-> Sub(t, RefNth(starts, n), stop(RefNth(starts, n)))]

\* where the literal " - " stands in a remainder
RefSeparators(r) ==
  {i \in 1..(Len(r) - 2) : r[i] = " " /\ r[i + 1] = "-" /\ r[i + 2] = " "}

\* the parameter spec: the remainder up to its first " - "
RefSpecPart(r) ==
  IF RefSeparators(r) = {} THEN r ELSE Sub(r, 1, RefNth(RefSeparators(r), 1) - 1)

\* the description: what follows the first " - ", nothing without it
RefDescPart(r) ==
  IF RefSeparators(r) = {} THEN <<>>
  ELSE TrimSpace(Sub(r, RefNth(RefSeparators(r), 1) + 3, Len(r)))

\* the remainders of the @param lines whose spec has at least two tokens
RefAcceptedParams(s) ==
  LET rems == [k \in DOMAIN RefTagLines(s, StrAtParam) |->
                 RefRemainder(RefTagLines(s, StrAtParam)[k])]
  IN  SelectSeq(rems, LAMBDA r : Len(RefTokens(RefSpecPart(r))) >= 2)

\* C17: Parse returns a nil record and no error for every source text
\* without a /** ... */ block, and no error for any input.
C17_NoBlockIsAbsent ==
  pc = "parsed"
    => /\ err = "nil"
       /\ ~RefHasBlock(sourceCode) => doc.IsNil

C17_Witness ==
  /\ pc = "parsed"
  /\ IndexOfStr(sourceCode, StrBlockOpen) # 0
  /\ IndexOfStr(sourceCode, StrAtTag) # 0
  /\ ~RefHasBlock(sourceCode)
  /\ doc.IsNil
  /\ err = "nil"

\* C18: for every @param spec with at least two tokens Name is token 0; if
\* token 1 is IN, OUT or INOUT in any letter case, Direction is token 1 in
\* upper case and Type is token 2 when present, empty otherwise; if not,
\* Direction is IN and Type is token 1.  OrderData INOUT sdtOrder - Order
\* information gives {OrderData, INOUT, sdtOrder, Order information} and
\* CustomerID Numeric - Customer identifier gives Direction IN, Type Numeric.
C18_ParamTokens ==
  pc = "parsed"
    => LET acc == RefAcceptedParams(sourceCode)
       IN  /\ Len(doc.Parameters) = Len(acc)
           /\ \A k \in DOMAIN acc :
                LET toks == RefTokens(RefSpecPart(acc[k]))
                    p == doc.Parameters[k]
                IN  /\ p.Name = toks[1]
                    /\ IF ToLower(toks[2]) \in {StrIn, StrOut, StrInout}
                       THEN /\ p.Direction = ToUpper(toks[2])
                            /\ p.Type = (IF Len(toks) >= 3 THEN toks[3] ELSE <<>>)
                       ELSE /\ p.Direction = <<"I","N">>
                            /\ p.Type = toks[2]
                    /\ (p.Name = StrOrderData)
                         => /\ p.Direction = <<"I","N","O","U","T">>
                            /\ p.Type = <<"s","d","t","O","r","d","e","r">>
                            /\ p.Description = <<"O","r","d","e","r"," ","i","n","f","o",
                                                 "r","m","a","t","i","o","n">>
                    /\ (p.Name = StrCustomerID)
                         => /\ p.Direction = <<"I","N">>
                            /\ p.Type = <<"N","u","m","e","r","i","c">>

C18_Witness ==
  /\ pc = "parsed"
  /\ Len(doc.Parameters) = 2
  /\ doc.Parameters[1].Name = <<"a">>
  /\ doc.Parameters[1].Direction = <<"I","N","O","U","T">>
  /\ doc.Parameters[1].Type = <<>>
  /\ doc.Parameters[2].Name = <<"b">>
  /\ doc.Parameters[2].Direction = <<"I","N">>
  /\ doc.Parameters[2].Type = <<"N">>

\* C19: a @param remainder is split on the first " - ": the text after it
\* is the Description, later " - " stay inside it, and without the
\* separator the Description is empty; when the part before the separator
\* has fewer than two tokens the tag is discarded: Parameters gains no
\* entry and no error is raised.
C19_ParamDescription ==
  pc = "parsed"
    => LET acc == RefAcceptedParams(sourceCode)
           all == RefTagLines(sourceCode, StrAtParam)
       IN  /\ err = "nil"
           /\ Len(doc.Parameters) = Len(all)
                - Cardinality({k \in DOMAIN all :
                                 Len(RefTokens(RefSpecPart(RefRemainder(all[k])))) < 2})
           /\ \A k \in DOMAIN acc :
                k \in DOMAIN doc.Parameters
                  /\ doc.Parameters[k].Description = RefDescPart(acc[k])

C19_Witness ==
  /\ pc = "parsed"
  /\ Len(RefTagLines(sourceCode, StrAtParam)) = 2
  /\ Len(doc.Parameters) = 1
  /\ doc.Parameters[1].Description = <<"e"," ","-"," ","f">>
  /\ err = "nil"

\* C20: repeatable tags accumulate in order of appearance: Tags holds the
\* value of every @tag line of the block, one entry per line, in line
\* order; Parameters holds one entry per accepted @param line, in line
\* order; nothing is deduplicated, reordered or lost.
C20_TagsAccumulate ==
  pc = "parsed"
    => LET tags == RefTagLines(sourceCode, StrAtTag)
           acc == RefAcceptedParams(sourceCode)
       IN  /\ doc.Tags = [k \in DOMAIN tags |-> RefRemainder(tags[k])]
           /\ DOMAIN doc.Parameters = DOMAIN acc
           /\ \A k \in DOMAIN acc :
                /\ HasPrefix(acc[k], doc.Parameters[k].Name)
                /\ IsSpace(acc[k][Len(doc.Parameters[k].Name) + 1])

C20_Witness ==
  /\ pc = "parsed"
  /\ Len(RefTagLines(sourceCode, StrAtTag)) = 2
  /\ doc.Tags = << <<"X">>, <<"X">> >>

\* the tags of the table of recognized tags
RefRecognizedTags ==
  {StrAtPackage, StrAtSummary, StrAtDescription, StrAtAuthor, StrAtCreated,
   StrAtReturn, StrAtTag, StrAtDeprecated, StrAtParam}

\* a line that does not begin with @, or whose tag is not recognized
RefIgnoredLine(line) ==
  \/ line = <<>>
  \/ line[1] # "@"
  \/ RefTagWord(line) \notin RefRecognizedTags

\* C21: lines of a block that do not begin with @ and lines with an
\* unrecognized tag leave the record unchanged: parsing the block gives the
\* same record as parsing it with all such lines removed.
C21_IgnoredLinesLeaveRecord ==
  (pc = "parsed" /\ RefHasBlock(sourceCode))
    => doc = Parse(StarLayout(SelectSeq(RefBlockLines(sourceCode),
                                        LAMBDA l : ~RefIgnoredLine(l)))).doc

\* C29: Parse returns a record whenever the source text holds a /** ... */
\* block, also an empty one or one without @ tags (all fields are then
\* empty); it returns absent only when there is no block.
C29_BlockGivesRecord ==
  pc = "parsed"
    => /\ doc.IsNil <=> ~RefHasBlock(sourceCode)
       /\ (/\ RefHasBlock(sourceCode)
           /\ \A k \in DOMAIN RefBlockLines(sourceCode) :
                RefIgnoredLine(RefBlockLines(sourceCode)[k]))
            => doc = NewDocComment

(***************************************************************************)
(* The producers of ParameterDoc together: an object is resolved and its   *)
(* parameters enriched, or a source text is parsed.                        *)
(***************************************************************************)
InitProducers == Init \/ InitParse

NextProducers == Resolve \/ Enrich \/ ParseSource

SpecProducers == InitProducers /\ [][NextProducers]_vars

RefDirections == {StrIN, StrOUT, StrINOUT}

RefWellFormed(p) == p.Name # <<>> /\ p.Direction \in RefDirections

\* C28: every ParameterDoc produced by the resolver, in ParmRule or IsParm
\* mode, or by the annotation parser has a non-empty Name and a Direction
\* that is exactly IN, OUT or INOUT; enrichment keeps both.
C28_NameAndDirection ==
  /\ pc \in {"resolved", "enriched"}
       => \A i \in DOMAIN sig.Parameters : RefWellFormed(sig.Parameters[i])
  /\ pc = "enriched"
       => LET before == ExtractProcedureSignature(obj, procedureName).Parameters
          IN  /\ Len(enriched) = Len(before)
              /\ \A i \in DOMAIN enriched :
                   /\ enriched[i].Name = before[i].Name
                   /\ enriched[i].Direction = before[i].Direction
  /\ pc = "parsed"
       => \A i \in DOMAIN doc.Parameters : RefWellFormed(doc.Parameters[i])

C28_Witness ==
  /\ pc = "enriched"
  /\ sig.ExtractionMode = "ParmRule"
  /\ Len(enriched) = 1
  /\ enriched[1].Direction \in {StrOUT, StrINOUT}
  /\ enriched[1].Type # <<>>
  /\ byRule.Parameters[1].Type = <<>>

(***************************************************************************)
(* Extract: the files of an opened archive are written out one by one and  *)
(* every file named *.xml is handed to parseGXExportFile.                  *)
(***************************************************************************)
MaxFiles == 2
MaxObjs == 2

StrQ == <<"Q">>
StrD == <<"D">>
StrK == <<"K">>
StrL == <<"L">>
StrOtherType == "c9584656-94b6-4ccd-890f-332d11fc2c25"

\* source code parts: none, no block, an empty block, free text only, a
\* summary, a summary and a parameter
SourceParts ==
  { <<>>,
    <<GXPart(GXPartSourceCode, <<"x",";">>, <<>>)>>,
    <<GXPart(GXPartSourceCode, <<"/","*","*"," ","*","/">>, <<>>)>>,
    <<GXPart(GXPartSourceCode, <<"/","*","*"," ","t","e","x","t"," ","*","/">>, <<>>)>>,
    <<GXPart(GXPartSourceCode, <<"/","*","*","\n"," ","*"," ","@","s","u","m","m","a","r","y"," ","S","\n"," ","*","/","\n","x",";">>, <<>>)>>,
    <<GXPart(GXPartSourceCode, <<"/","*","*","\n"," ","*"," ","@","s","u","m","m","a","r","y"," ","S","\n"," ","*"," ","@","p","a","r","a","m"," ","a"," ","O","U","T"," ","T"," ","-"," ","c","\n"," ","*","/">>, <<>>)>> }

\* rules parts: none, two parameters, a blank argument list, no call, a
\* lower-case token, a segment without `:`, two rules parts
RulesParts ==
  { <<>>,
    <<GXPart(GXPartRules, <<"P","a","r","m","(","i","n",":","&","a",","," ","o","u","t",":","&","b",")",";">>, <<>>)>>,
    <<GXPart(GXPartRules, <<"P","a","r","m","(",")",";">>, <<>>)>>,
    <<GXPart(GXPartRules, <<"x",";">>, <<>>)>>,
    <<GXPart(GXPartRules, <<"p","a","r","m","(","o","u","t",":","&","a",")",";">>, <<>>)>>,
    <<GXPart(GXPartRules, <<" ","P","a","r","m","(","a",","," ","i","n",":","&","b",")"," ">>, <<>>)>>,
    <<GXPart(GXPartRules, <<"P","a","r","m","(","i","n","o","u","t",":","&","a",")",";">>, <<>>), GXPart(GXPartRules, <<"P","a","r","m","(","i","n",":","&","a",","," ","o","u","t",":","&","b",")",";">>, <<>>)>> }

\* variables parts: none, one variable, two variables of one name and a third
VariablesParts ==
  { <<>>,
    <<GXPart(GXPartVariables, <<>>,
             <<Variable(<<"a">>, <<Prop("ATTCUSTOMTYPE", StrBasN),
                                   Prop("Description", <<"d">>)>>)>>)>>,
    <<GXPart(GXPartVariables, <<>>,
             <<Variable(<<"a">>, <<Prop("Description", <<"e">>)>>),
               Variable(<<"a">>, <<Prop("ATTCUSTOMTYPE", <<"s","d","t",":","M",","," ","G">>)>>),
               Variable(<<"b">>, <<Prop("ATTCUSTOMTYPE", <<"N">>),
                                   Prop("ATTCUSTOMTYPE", <<>>)>>)>>)>> }

\* procedures with every combination of the three parts
RichObjects ==
  { GXObjectXML(StrP, GXTypeProcedure, <<>>, sp \o rp \o vp) :
      sp \in SourceParts, rp \in RulesParts, vp \in VariablesParts }

\* the objects of the files with several objects: a procedure, one of the
\* same name and another description, a second procedure, and objects of a
\* kind the map does not hold, with and without a type
FewObjects ==
  { GXObjectXML(StrP, GXTypeProcedure, <<>>, <<GXPart(GXPartRules, <<"P","a","r","m","(","i","n","o","u","t",":","&","a",")",";">>, <<>>)>>),
    GXObjectXML(StrP, GXTypeProcedure, StrD, <<>>),
    GXObjectXML(StrQ, GXTypeProcedure, <<>>,
                <<GXPart(GXPartSourceCode, <<"/","*","*","\n"," ","*"," ","@","s","u","m","m","a","r","y"," ","S","\n"," ","*","/","\n","x",";">>, <<>>)>>),
    GXObjectXML(StrP, StrOtherType, <<>>, <<>>),
    GXObjectXML(StrQ, "", StrD, <<>>) }

XmlFile(kb, objs) == ArchiveFile(<<"a",".","x","m","l">>, FALSE, FALSE, TRUE, kb, objs)

\* the files of the archives with several files
ArchiveFiles ==
  { XmlFile(StrK, <<GXObjectXML(StrP, GXTypeProcedure, <<>>, <<>>)>>),
    XmlFile(<<>>, <<GXObjectXML(StrP, GXTypeProcedure, StrD, <<>>)>>),
    XmlFile(StrL, <<GXObjectXML(StrP, StrOtherType, <<>>, <<>>),
                    GXObjectXML(StrQ, GXTypeProcedure, <<>>, <<>>)>>),
    XmlFile(StrL, <<>>),
    ArchiveFile(<<"B",".","X","M","L">>, FALSE, FALSE, TRUE, StrK,
                <<GXObjectXML(StrQ, GXTypeProcedure, StrD, <<>>)>>),
    ArchiveFile(<<"c",".","x","m","l">>, FALSE, FALSE, FALSE, <<>>, <<>>),
    ArchiveFile(<<"d",".","t","x","t">>, FALSE, FALSE, FALSE, <<>>, <<>>),
    ArchiveFile(<<"e","/">>, TRUE, FALSE, FALSE, <<>>, <<>>),
    ArchiveFile(<<"f",".","x","m","l">>, FALSE, TRUE, TRUE, StrK,
                <<GXObjectXML(StrP, GXTypeProcedure, <<>>, <<>>)>>) }

Archives ==
  SeqsUpTo(ArchiveFiles, MaxFiles)
    \cup { <<XmlFile(StrK, objs)>> : objs \in SeqsUpTo(FewObjects, MaxObjs) }
    \cup { <<XmlFile(StrK, <<o>>)>> : o \in RichObjects }

InitExtract ==
  /\ archive \in Archives
  /\ pc = "extracting"
  /\ fileIdx = 1
  /\ objects = <<>>
  /\ kbName = <<>>
  /\ parsedObjects = <<>> /\ extractedKBName = <<>> /\ parseErr = "nil"
  /\ result = NilResult
  /\ NoResolverCall /\ NoTypeCall /\ NoEnrichCall /\ NoParseCall

\* the file of the current pass of `for _, file := range reader.File`
InLoop == pc = "extracting" /\ fileIdx <= Len(archive)
File == archive[fileIdx]

\* a directory entry: the directory is created and the loop continues
MakeDirectory ==
  /\ InLoop /\ File.IsDir /\ ~File.IoFails
  /\ fileIdx' = fileIdx + 1
  /\ UNCHANGED <<procedureName, obj, pc, byRule, sig, enriched, typeVars, enrichVars,
                 parseVars, archive, objects, kbName,
                 parsedObjects, extractedKBName, parseErr, result>>

\* os.MkdirAll or extractFile fails: Extract returns nil and the error
ExtractFails ==
  /\ InLoop /\ File.IoFails
  /\ result' = [NilResult EXCEPT !.err = "extract"]
  /\ pc' = "failed"
  /\ UNCHANGED <<procedureName, obj, byRule, sig, enriched, typeVars, enrichVars,
                 parseVars, archive, fileIdx, objects, kbName,
                 parsedObjects, extractedKBName, parseErr>>

\* a file whose name does not end in .xml is only written out
CopyFile ==
  /\ InLoop /\ ~File.IsDir /\ ~File.IoFails /\ ~IsXmlName(File.Name)
  /\ fileIdx' = fileIdx + 1
  /\ UNCHANGED <<procedureName, obj, pc, byRule, sig, enriched, typeVars, enrichVars,
                 parseVars, archive, objects, kbName,
                 parsedObjects, extractedKBName, parseErr, result>>

\* mutant of ParseFails: the error of parseGXExportFile ends the run
ParseFails_EndsRun ==
  /\ InLoop /\ ~File.IsDir /\ ~File.IoFails /\ IsXmlName(File.Name)
  /\ parseGXExportFile(File).err # "nil"
  /\ parsedObjects' = parseGXExportFile(File).objects
  /\ extractedKBName' = parseGXExportFile(File).kbName
  /\ parseErr' = parseGXExportFile(File).err
  /\ result' = [NilResult EXCEPT !.err = "extract"]
  /\ pc' = "failed"
  /\ UNCHANGED <<procedureName, obj, byRule, sig, enriched, typeVars, enrichVars,
                 parseVars, archive, fileIdx, objects, kbName>>

\* parseGXExportFile returns an error: a warning is logged, the loop continues
ParseFails ==
  /\ InLoop /\ ~File.IsDir /\ ~File.IoFails /\ IsXmlName(File.Name)
  /\ parseGXExportFile(File).err # "nil"
  /\ parsedObjects' = parseGXExportFile(File).objects
  /\ extractedKBName' = parseGXExportFile(File).kbName
  /\ parseErr' = parseGXExportFile(File).err
  /\ fileIdx' = fileIdx + 1
  /\ UNCHANGED <<procedureName, obj, pc, byRule, sig, enriched, typeVars, enrichVars,
                 parseVars, archive, objects, kbName, result>>

\* parseGXExportFile succeeds: the first non-empty name is kept and the
\* objects are appended
ParseSucceeds ==
  /\ InLoop /\ ~File.IsDir /\ ~File.IoFails /\ IsXmlName(File.Name)
  /\ parseGXExportFile(File).err = "nil"
  /\ parsedObjects' = parseGXExportFile(File).objects
  /\ extractedKBName' = parseGXExportFile(File).kbName
  /\ parseErr' = "nil"
  /\ kbName' = IF kbName = <<>> /\ extractedKBName' # <<>> THEN extractedKBName' ELSE kbName
  /\ objects' = IF Len(parsedObjects') > 0 THEN objects \o parsedObjects' ELSE objects
  /\ fileIdx' = fileIdx + 1
  /\ UNCHANGED <<procedureName, obj, pc, byRule, sig, enriched, typeVars, enrichVars,
                 parseVars, archive, result>>

\* after the last file: return &ExtractResult{Objects, KBName}, nil
ReturnResult ==
  /\ pc = "extracting" /\ fileIdx > Len(archive)
  /\ result' = [IsNil |-> FALSE, Objects |-> objects, KBName |-> kbName, err |-> "nil"]
  /\ pc' = "returned"
  /\ UNCHANGED <<procedureName, obj, byRule, sig, enriched, typeVars, enrichVars,
                 parseVars, archive, fileIdx, objects, kbName,
                 parsedObjects, extractedKBName, parseErr>>

NextExtract ==
  \/ MakeDirectory
  \/ ExtractFails
  \/ CopyFile
  \/ ParseFails
  \/ ParseSucceeds
  \/ ReturnResult

SpecExtract == InitExtract /\ [][NextExtract]_vars

(***************************************************************************)
(* What the claims about the assembler speak of.                           *)
(***************************************************************************)
\* the metadata documents of an archive: the files named *.xml that decode
RefIsDocument(f) == ~f.IsDir /\ IsXmlName(f.Name)
RefDocuments(a) == SelectSeq(a, LAMBDA f : RefIsDocument(f) /\ f.Decodes)

\* the objects of all documents in processing order
RECURSIVE RefAllObjects(_)
RefAllObjects(docs) ==
  IF Len(docs) = 0 THEN <<>> ELSE Head(docs).Objects \o RefAllObjects(Tail(docs))

\* an object of a kind the kind map holds
RefRecognized(o) == gxTypeMap(o.Type) \notin {"", "Folder"}

\* the kinds of the kind map
RefKinds == {"Procedure"}

\* the first object of a list with this name and kind
RefFirstOf(objs, name, kind) ==
  objs[CHOOSE i \in DOMAIN objs :
         /\ objs[i].Name = name /\ gxTypeMap(objs[i].Type) = kind
         /\ \A j \in 1..(i - 1) :
              ~(objs[j].Name = name /\ gxTypeMap(objs[j].Type) = kind)]

\* C22: the list Extract returns holds at most one object per (Name,
\* DeclaredKind), the first in processing order, also when the occurrences
\* come from different XML files of the archive.
C22_OneObjectPerNameAndKind ==
  pc = "returned"
    => /\ \A i, j \in DOMAIN result.Objects :
            (/\ result.Objects[i].Path = result.Objects[j].Path
             /\ result.Objects[i].Type = result.Objects[j].Type) => i = j
       /\ \A i \in DOMAIN result.Objects :
            LET gx == result.Objects[i]
            IN  gx = AssembleObject(
                       RefFirstOf(RefAllObjects(RefDocuments(archive)), gx.Path, gx.Type),
                       gx.Type)

\* the archive without the objects of a kind the kind map does not hold
RefWithoutExcluded(a) ==
  [k \in DOMAIN a |-> [a[k] EXCEPT !.Objects = SelectSeq(@, RefRecognized)]]

\* what the documents of an archive give, document by document
RECURSIVE RefParsedObjects(_)
RefParsedObjects(docs) ==
  IF Len(docs) = 0 THEN <<>>
  ELSE parseGXExportFile(Head(docs)).objects \o RefParsedObjects(Tail(docs))

\* C23: objects of a kind the kind map does not hold never appear: every
\* returned object has a kind of the map, and the list is the one the
\* archive gives without those objects (they take no deduplication slot and
\* change no other object).
C23_UnrecognizedKindsExcluded ==
  pc = "returned"
    => /\ \A i \in DOMAIN result.Objects : result.Objects[i].Type \in RefKinds
       /\ result.Objects = RefParsedObjects(RefDocuments(RefWithoutExcluded(archive)))

C23_Witness ==
  /\ pc = "returned"
  /\ Len(archive) = 1
  /\ Len(archive[1].Objects) = 2
  /\ ~RefRecognized(archive[1].Objects[1])
  /\ RefRecognized(archive[1].Objects[2])
  /\ archive[1].Objects[1].Name = archive[1].Objects[2].Name
  /\ Len(result.Objects) = 1
  /\ result.Objects[1].Path = archive[1].Objects[1].Name

\* the file of the last pass of the loop; parsedObjects are its objects
\* when it is a document that decoded
RefLastFile == archive[fileIdx - 1]
RefJustParsed ==
  fileIdx > 1 /\ RefIsDocument(RefLastFile) /\ RefLastFile.Decodes
\* the object of that document that a record came from
RefSourceOf(gx) == RefFirstOf(RefLastFile.Objects, gx.Path, gx.Type)

\* the record the parser found in the source code of an object, the
\* parameters read from its signature, and those parameters enriched
RefAuthored(gx) == Parse(gx.SourceCode).doc
RefSignatureParams(gx) == parseParmParameters(gx.ParmSignature)
RefEnrichedParams(gx) ==
  enrichParametersWithVariableInfo(RefSignatureParams(gx), RefSourceOf(gx).Parts)

\* C24: a record with IsAutoGenerated = true is synthesized exactly when no
\* annotation comment was found and the signature has parameters; its
\* Parameters are the enriched parameters of the signature. An object
\* without annotation and without parameters gets no record.
C24_SynthesizedExactlyWithParameters ==
  RefJustParsed => \A i \in DOMAIN parsedObjects :
    LET gx == parsedObjects[i]
    IN  /\ gx.Documentation.IsAutoGenerated
             <=> (RefAuthored(gx).IsNil /\ RefSignatureParams(gx) # <<>>)
        /\ gx.Documentation.IsAutoGenerated
             => gx.Documentation.Parameters = RefEnrichedParams(gx)
        /\ (RefAuthored(gx).IsNil /\ RefSignatureParams(gx) = <<>>)
             => gx.Documentation.IsNil

RefFirstName(docs) ==
  LET named == SelectSeq(docs, LAMBDA f : f.KBName # <<>>)
  IN  IF Len(named) = 0 THEN <<>> ELSE named[1].KBName

\* C26: a metadata document that cannot be decoded fails as a whole: the
\* call for it returns an error with no object and no knowledge-base name,
\* nothing of it enters the output, and the other documents of the run are
\* still processed and their objects returned in archive order.
C26_UndecodableDocumentFailsAlone ==
  /\ parseErr # "nil" => (parsedObjects = <<>> /\ extractedKBName = <<>>)
  /\ (pc = "extracting" /\ fileIdx > 1 /\ RefIsDocument(RefLastFile))
       => (parseErr # "nil" <=> ~RefLastFile.Decodes)
  /\ pc = "failed" => \E k \in DOMAIN archive : archive[k].IoFails
  /\ pc = "returned"
       => /\ result.err = "nil" /\ ~result.IsNil
          /\ result.Objects = RefParsedObjects(RefDocuments(archive))
          /\ result.KBName = RefFirstName(RefDocuments(archive))

C26_Witness ==
  /\ pc = "returned"
  /\ Len(archive) = 2
  /\ RefIsDocument(archive[1]) /\ ~archive[1].Decodes
  /\ RefIsDocument(archive[2]) /\ archive[2].Decodes
  /\ Len(result.Objects) = 1
  /\ result.KBName = archive[2].KBName
  /\ result.KBName # <<>>

====
